---------------------------- MODULE Spec2Model ----------------------------
(***************************************************************************)
(* A model of the SkillCert course registry contract (course_registry):    *)
(* course creation and editing, position-keyed modules, goals, and the     *)
(* index-free paginated scan list_courses_with_filters.                    *)
(*                                                                         *)
(* Every contract entry point is one action.  An entry point is first      *)
(* computed as an "outcome" [err, st, ret, events]: the error it raised    *)
(* ("none" when it returned), the storage as written up to that point,     *)
(* the returned value and the events published.  The host then commits     *)
(* or discards the writes (HostCommit).                                    *)
(***************************************************************************)
EXTENDS Integers, Sequences, FiniteSets, TLC

VARIABLES
    storage,   \* the contract's persistent storage
    ledger,    \* the host ledger: [timestamp, sequence]
    last,      \* the most recent call: [op, args, err, ret, events]
    hist       \* history: [created, rejected, added, times, limited, archived, seen,
               \*           published, migrated, goal_ids, removed, saved, issued]

vars == <<storage, ledger, last, hist>>

(***************************************************************************)
(* Bounds of the model.                                                    *)
(***************************************************************************)
MaxCourses == 3        \* Spec: create_course calls that may succeed in one run
MaxTime == 3           \* Spec: ledger timestamps range over 0..MaxTime
MaxEditCourses == 2    \* EditSpec: courses created in one run
MaxModCourses == 2     \* ModSpec: courses created in one run
MaxTxCourses == 3      \* TxSpec: ids that may be allocated in one run
MaxGoals == 2          \* TxSpec: add_goal calls that may succeed in one run
MaxListed == 23        \* ListSpec: ids allocated in the listed registries
MaxReadCourses == 2    \* ReadSpec: courses created in one run
MaxFieldCourses == 2   \* FieldSpec: courses created in one run
MaxFieldEdits == 2     \* FieldSpec: edit_course calls that may succeed in one run
MaxGoalCourses == 2    \* GoalSpec: courses created in one run
MaxGoalAdds == 3       \* GoalSpec: add_goal calls that may succeed in one run
MaxMigrations == 2     \* MigSpec: migrations that succeed, per contract
MaxSequence == 1000    \* ReadSpec: ledger sequence numbers range over 0..MaxSequence
MaxIdCourses == 2      \* IdSpec: courses created in one run
MaxIdSequence == 11    \* IdSpec: ledger sequence numbers range over 0..MaxIdSequence

(***************************************************************************)
(* Values.  Option<T> is a sequence of length <= 1.                        *)
(***************************************************************************)
None == <<>>
Some(x) == <<x>>
IsSome(o) == Len(o) = 1
Unwrap(o) == o[1]

Min(a, b) == IF a <= b THEN a ELSE b

\* Addresses.  The identity oracle (user management contract) answers
\* is_admin(who) with TRUE exactly for the members of Admins.
Addresses == {"alice", "bob", "admin"}
Admins == {"admin"}

\* Free-text strings are tokens with a length; "" is the empty string.
StrLen(s) ==
    CASE s = "" -> 0
      [] s = "cat101" -> 101
      [] s = "lang51" -> 51
      [] OTHER -> 4
is_empty(s) == StrLen(s) = 0

\* Identifier strings are sequences of characters.
DigitChars == <<"0", "1", "2", "3", "4", "5", "6", "7", "8", "9">>
Underscore == <<"_">>
ModulePrefix == <<"m", "o", "d", "u", "l", "e", "_">>

RECURSIVE u32_to_string(_)
u32_to_string(n) ==
    IF n < 10 THEN <<DigitChars[n + 1]>>
    ELSE u32_to_string(n \div 10) \o <<DigitChars[(n % 10) + 1]>>

\* "id as u32" keeps the low 32 bits: the identity on every id below 2^32,
\* which are all the ids the bounds of this model let the counter reach
as_u32(n) == n

\* Decimal reading of an identifier string (0 for a non-digit character).
DigitValue(c) ==
    IF \E d \in 1..10 : DigitChars[d] = c
    THEN (CHOOSE d \in 1..10 : DigitChars[d] = c) - 1
    ELSE 0
RECURSIVE DecimalValue(_)
DecimalValue(s) ==
    IF s = <<>> THEN 0
    ELSE 10 * DecimalValue(SubSeq(s, 1, Len(s) - 1)) + DigitValue(s[Len(s)])
IsDecimal(s) ==
    /\ Len(s) >= 1
    /\ \A i \in 1..Len(s) : \E d \in 1..10 : DigitChars[d] = s[i]
    /\ (Len(s) > 1 => s[1] # "0")

(***************************************************************************)
(* Storage.                                                                *)
(*   course    : course id string -> Course     key (COURSE_KEY, id)       *)
(*   course_id : the id counter                 key COURSE_ID, absent = 0  *)
(*   rate      : creator -> [count, window_start]                          *)
(*   module    : module id string -> CourseModule   key (MODULE_KEY, id)   *)
(*   pos       : set of <<course id, position>>     key ("pos", id, p)     *)
(*   goal      : <<course id, goal id>> -> CourseGoal                      *)
(*   goal_seq  : goal ids issued                                           *)
(*   versions  : the version history, in order  absent = empty             *)
(*   migration : the migration status recorded  absent = <<>>              *)
(* and, of the user_profile contract,                                      *)
(*   profile   : address -> UserProfile         key (PROFILE_KEY, address) *)
(* The course_access contract keeps a version history and a migration      *)
(* status of its own, in access_versions and access_migration.             *)
(***************************************************************************)
EmptyFcn == [x \in {} |-> x]

EmptyStorage ==
    [course |-> EmptyFcn, course_id |-> 0, rate |-> EmptyFcn,
     module |-> EmptyFcn, pos |-> {}, goal |-> EmptyFcn, goal_seq |-> 0,
     profile |-> EmptyFcn,
     versions |-> <<>>, migration |-> <<>>,
     access_versions |-> <<>>, access_migration |-> <<>>,
     access_profile |-> EmptyFcn]

has(map, key) == key \in DOMAIN map
set(map, key, value) == [k \in (DOMAIN map) \cup {key} |-> IF k = key THEN value ELSE map[k]]
remove(map, key) == [k \in (DOMAIN map) \ {key} |-> map[k]]

Ok(st, ret, events) == [err |-> "none", st |-> st, ret |-> ret, events |-> events]
\* handle_error / panic: the call aborts at this point
Fail(st, e) == [err |-> e, st |-> st, ret |-> None, events |-> <<>>]

\* A failed call's writes are discarded by the host, a returning call's kept.
HostCommitKeepsWrites(st, out) == out.st
HostCommit(st, out) == IF out.err = "none" THEN out.st ELSE st

(***************************************************************************)
(* Rate limiter of course creation.                                        *)
(***************************************************************************)
RATE_LIMIT_MAX == 2
RATE_LIMIT_WINDOW == 2

\* the limiter with a window that never expires
check_course_creation_rate_limit_no_reset(st, now, creator) ==
    LET old == IF has(st.rate, creator) THEN st.rate[creator]
               ELSE [count |-> 0, window_start |-> now]
        new == [old EXCEPT !.count = old.count + 1]
        st1 == [st EXCEPT !.rate = set(st.rate, creator, new)]
    IN  IF new.count > RATE_LIMIT_MAX THEN Fail(st1, "RateLimitExceeded")
        ELSE Ok(st1, None, <<>>)

check_course_creation_rate_limit(st, now, creator) ==
    LET old == IF has(st.rate, creator) THEN st.rate[creator]
               ELSE [count |-> 0, window_start |-> now]
        cur == IF now >= old.window_start + RATE_LIMIT_WINDOW
               THEN [count |-> 0, window_start |-> now]
               ELSE old
        new == [cur EXCEPT !.count = cur.count + 1]
        st1 == [st EXCEPT !.rate = set(st.rate, creator, new)]
    IN  IF new.count > RATE_LIMIT_MAX THEN Fail(st1, "RateLimitExceeded")
        ELSE Ok(st1, None, <<>>)

(***************************************************************************)
(* create_course                                                           *)
(***************************************************************************)
generate_course_id_skips(st) ==
    LET new_id == st.course_id + 2
    IN  [st |-> [st EXCEPT !.course_id = new_id], id |-> new_id,
         events |-> << <<"genCrsId", new_id>> >>]

\* the id allocation without its event
generate_course_id_silent(st) ==
    LET new_id == st.course_id + 1
    IN  [st |-> [st EXCEPT !.course_id = new_id], id |-> new_id, events |-> <<>>]

generate_course_id(st) ==
    LET current_id == st.course_id
        new_id == current_id + 1
    IN  [st |-> [st EXCEPT !.course_id = new_id], id |-> new_id,
         events |-> << <<"genCrsId", new_id>> >>]

\* create_course with the id allocated before the rate-limit check
create_course_allocates_first(st, now, creator, a) ==
    LET gen == generate_course_id(st)
        rl == check_course_creation_rate_limit(gen.st, now, creator)
        converted_id == u32_to_string(as_u32(gen.id))
        new_course ==
            [id |-> converted_id, off_chain_ref_id |-> a.off_chain_ref_id,
             content_hash |-> a.content_hash, creator |-> creator, price |-> a.price,
             category |-> a.category, language |-> a.language, published |-> FALSE,
             prerequisites |-> <<>>, is_archived |-> FALSE, level |-> a.level,
             duration_hours |-> a.duration_hours]
    IN  IF rl.err # "none" THEN [rl EXCEPT !.events = gen.events]
        ELSE IF is_empty(a.off_chain_ref_id) THEN Fail(rl.st, "OffChainRefIdRequired")
        ELSE IF is_empty(a.content_hash) THEN Fail(rl.st, "ContentHashRequired")
        ELSE IF a.price = 0 THEN Fail(rl.st, "InvalidPrice")
        ELSE IF IsSome(a.category)
                /\ (is_empty(Unwrap(a.category)) \/ StrLen(Unwrap(a.category)) > 100)
             THEN Fail(rl.st, "EmptyCategory")
        ELSE IF IsSome(a.language)
                /\ (is_empty(Unwrap(a.language)) \/ StrLen(Unwrap(a.language)) > 50)
             THEN Fail(rl.st, "InvalidLanguageLength")
        ELSE IF IsSome(a.duration_hours)
                /\ (Unwrap(a.duration_hours) = 0 \/ Unwrap(a.duration_hours) > 8760)
             THEN Fail(rl.st, "InvalidDurationValue")
        ELSE Ok([rl.st EXCEPT !.course = set(rl.st.course, converted_id, new_course)],
                new_course, gen.events \o << <<"crtCourse", converted_id, creator>> >>)

create_course(st, now, creator, a) ==
    LET rl == check_course_creation_rate_limit(st, now, creator)
        st1 == rl.st
        gen == generate_course_id(st1)
        converted_id == u32_to_string(as_u32(gen.id))
        new_course ==
            [id |-> converted_id,
             off_chain_ref_id |-> a.off_chain_ref_id,
             content_hash |-> a.content_hash,
             creator |-> creator,
             price |-> a.price,
             category |-> a.category,
             language |-> a.language,
             published |-> FALSE,
             prerequisites |-> <<>>,
             is_archived |-> FALSE,
             level |-> a.level,
             duration_hours |-> a.duration_hours]
    IN  IF rl.err # "none" THEN rl
        ELSE IF is_empty(a.off_chain_ref_id) THEN Fail(st1, "OffChainRefIdRequired")
        ELSE IF is_empty(a.content_hash) THEN Fail(st1, "ContentHashRequired")
        ELSE IF a.price = 0 THEN Fail(st1, "InvalidPrice")
        ELSE IF IsSome(a.category)
                /\ (is_empty(Unwrap(a.category)) \/ StrLen(Unwrap(a.category)) > 100)
             THEN Fail(st1, "EmptyCategory")
        ELSE IF IsSome(a.language)
                /\ (is_empty(Unwrap(a.language)) \/ StrLen(Unwrap(a.language)) > 50)
             THEN Fail(st1, "InvalidLanguageLength")
        ELSE IF IsSome(a.duration_hours)
                /\ (Unwrap(a.duration_hours) = 0 \/ Unwrap(a.duration_hours) > 8760)
             THEN Fail(st1, "InvalidDurationValue")
        ELSE IF has(gen.st.course, converted_id) THEN Fail(gen.st, "DuplicateCourseId")
        ELSE Ok([gen.st EXCEPT !.course = set(gen.st.course, converted_id, new_course)],
                new_course,
                gen.events \o << <<"crtCourse", converted_id, creator>> >>)

(***************************************************************************)
(* edit_course                                                             *)
(***************************************************************************)
\* the fields of the loaded course overwritten by the supplied parameters
\* the field updates with the new price also written into the id
apply_edit_params_price_into_id(course, p) ==
    LET c1 == IF IsSome(p.new_content_hash)
              THEN [course EXCEPT !.content_hash = Unwrap(p.new_content_hash)] ELSE course
        c3 == IF IsSome(p.new_price)
              THEN [c1 EXCEPT !.price = Unwrap(p.new_price),
                              !.id = u32_to_string(Unwrap(p.new_price))]
              ELSE c1
    IN  IF IsSome(p.new_published) THEN [c3 EXCEPT !.published = Unwrap(p.new_published)]
        ELSE c3

\* the field updates with a publication that also clears the archive flag
apply_edit_params_publish_unarchives(course, p) ==
    LET c3 == IF IsSome(p.new_price) THEN [course EXCEPT !.price = Unwrap(p.new_price)]
              ELSE course
    IN  IF IsSome(p.new_published)
        THEN [c3 EXCEPT !.published = Unwrap(p.new_published), !.is_archived = FALSE]
        ELSE c3

\* the edit that clears the level when no new level is supplied
apply_edit_params_clearing_level(course, p) ==
    LET c1 == IF IsSome(p.new_content_hash)
              THEN [course EXCEPT !.content_hash = Unwrap(p.new_content_hash)] ELSE course
        c2 == IF IsSome(p.new_off_chain_ref_id)
              THEN [c1 EXCEPT !.off_chain_ref_id = Unwrap(p.new_off_chain_ref_id)] ELSE c1
        c3 == IF IsSome(p.new_price) THEN [c2 EXCEPT !.price = Unwrap(p.new_price)] ELSE c2
        c4 == IF IsSome(p.new_category)
              THEN [c3 EXCEPT !.category = Unwrap(p.new_category)] ELSE c3
        c5 == IF IsSome(p.new_language)
              THEN [c4 EXCEPT !.language = Unwrap(p.new_language)] ELSE c4
        c6 == IF IsSome(p.new_published)
              THEN [c5 EXCEPT !.published = Unwrap(p.new_published)] ELSE c5
        c7 == IF IsSome(p.new_level) THEN [c6 EXCEPT !.level = Unwrap(p.new_level)]
              ELSE [c6 EXCEPT !.level = None]
    IN  IF IsSome(p.new_duration_hours)
        THEN [c7 EXCEPT !.duration_hours = Unwrap(p.new_duration_hours)] ELSE c7

apply_edit_params(course, p) ==
    LET c1 == IF IsSome(p.new_content_hash)
              THEN [course EXCEPT !.content_hash = Unwrap(p.new_content_hash)] ELSE course
        c2 == IF IsSome(p.new_off_chain_ref_id)
              THEN [c1 EXCEPT !.off_chain_ref_id = Unwrap(p.new_off_chain_ref_id)] ELSE c1
        c3 == IF IsSome(p.new_price) THEN [c2 EXCEPT !.price = Unwrap(p.new_price)] ELSE c2
        c4 == IF IsSome(p.new_category)
              THEN [c3 EXCEPT !.category = Unwrap(p.new_category)] ELSE c3
        c5 == IF IsSome(p.new_language)
              THEN [c4 EXCEPT !.language = Unwrap(p.new_language)] ELSE c4
        c6 == IF IsSome(p.new_published)
              THEN [c5 EXCEPT !.published = Unwrap(p.new_published)] ELSE c5
        c7 == IF IsSome(p.new_level) THEN [c6 EXCEPT !.level = Unwrap(p.new_level)] ELSE c6
    IN  IF IsSome(p.new_duration_hours)
        THEN [c7 EXCEPT !.duration_hours = Unwrap(p.new_duration_hours)] ELSE c7

\* the first validation error of the parameters, or "none"
\* the parameter validation without the price check
edit_params_error_no_price(p) ==
    IF IsSome(p.new_content_hash) /\ is_empty(Unwrap(p.new_content_hash))
    THEN "ContentHashRequired"
    ELSE IF IsSome(p.new_off_chain_ref_id) /\ is_empty(Unwrap(p.new_off_chain_ref_id))
    THEN "OffChainRefIdRequired"
    ELSE "none"

edit_params_error(p) ==
    IF IsSome(p.new_content_hash) /\ is_empty(Unwrap(p.new_content_hash))
    THEN "ContentHashRequired"
    ELSE IF IsSome(p.new_off_chain_ref_id) /\ is_empty(Unwrap(p.new_off_chain_ref_id))
    THEN "OffChainRefIdRequired"
    ELSE IF IsSome(p.new_price) /\ Unwrap(p.new_price) = 0 THEN "InvalidPrice"
    ELSE "none"

edit_course_no_owner_check(st, creator, course_id, p) ==
    IF ~has(st.course, course_id) THEN Fail(st, "panic: Course not found")
    ELSE IF edit_params_error(p) # "none" THEN Fail(st, edit_params_error(p))
    ELSE Ok([st EXCEPT !.course =
                 set(st.course, course_id, apply_edit_params(st.course[course_id], p))],
            apply_edit_params(st.course[course_id], p),
            << <<"editCours", creator, course_id>> >>)

edit_course(st, creator, course_id, p) ==
    IF ~has(st.course, course_id) THEN Fail(st, "panic: Course not found")
    ELSE IF creator # st.course[course_id].creator THEN Fail(st, "Unauthorized")
    ELSE IF edit_params_error(p) # "none" THEN Fail(st, edit_params_error(p))
    ELSE Ok([st EXCEPT !.course =
                 set(st.course, course_id, apply_edit_params(st.course[course_id], p))],
            apply_edit_params(st.course[course_id], p),
            << <<"editCours", creator, course_id>> >>)

(***************************************************************************)
(* course_access: save_user_profile                                        *)
(***************************************************************************)
\* the address of the course_access contract itself
CourseAccessAddress == "course_access"

\* save_profile.rs: the profile of `user` is written under UserProfile(user)
course_access_save_user_profile(st, off_chain_ref_id, user) ==
    IF is_empty(off_chain_ref_id) THEN Fail(st, "OffChainRefIdRequired")
    ELSE Ok([st EXCEPT !.access_profile =
                 set(st.access_profile, user,
                     [user |-> user, off_chain_ref_id |-> off_chain_ref_id])],
            None, << <<"saveUsPrl", user, off_chain_ref_id>> >>)

\* the entry point: the user is env.current_contract_address(), whoever
\* invokes the contract
save_user_profile(st, invoker, off_chain_ref_id) ==
    course_access_save_user_profile(st, off_chain_ref_id, CourseAccessAddress)

(***************************************************************************)
(* archive_course and delete_course                                        *)
(***************************************************************************)
archive_course(st, creator, course_id) ==
    IF ~has(st.course, course_id) THEN Fail(st, "CourseIdNotExist")
    ELSE IF st.course[course_id].creator # creator THEN Fail(st, "Unauthorized")
    ELSE LET c == [st.course[course_id] EXCEPT !.is_archived = TRUE]
         IN  Ok([st EXCEPT !.course = set(st.course, course_id, c)], c,
                << <<"archCours", creator, course_id>> >>)

delete_course(st, creator, course_id) ==
    IF ~has(st.course, course_id) THEN Fail(st, "CourseIdNotExist")
    ELSE IF st.course[course_id].creator # creator THEN Fail(st, "Unauthorized")
    ELSE Ok([st EXCEPT
                !.course = remove(st.course, course_id),
                !.module = [m \in {k \in DOMAIN st.module :
                                     st.module[k].course_id # course_id} |-> st.module[m]],
                !.pos = {k \in st.pos : k[1] # course_id},
                !.goal = [g \in {k \in DOMAIN st.goal : k[1] # course_id} |-> st.goal[g]]],
            None, << <<"delCourse", creator, course_id>> >>)

(***************************************************************************)
(* add_module                                                              *)
(***************************************************************************)
is_admin(who) == who \in Admins

\* Unauthorized unless the caller is the course's creator or an administrator
require_course_management_auth(st, caller, course_id) ==
    caller = st.course[course_id].creator \/ is_admin(caller)

\* a module id without the separators between its parts
module_id_of_unseparated(course_id, position, ledger_seq) ==
    ModulePrefix \o course_id \o u32_to_string(position) \o u32_to_string(ledger_seq)

module_id_of(course_id, position, ledger_seq) ==
    ModulePrefix \o course_id \o Underscore \o u32_to_string(position)
        \o Underscore \o u32_to_string(ledger_seq)

\* the first failing input check of add_module, or "none"
add_module_input_error(course_id, position, content_hash) ==
    IF Len(course_id) = 0 THEN "EmptyCourseId"
    ELSE IF is_empty(content_hash) THEN "ContentHashRequired"
    ELSE IF Len(course_id) > 100 THEN "EmptyCourseId"
    ELSE IF position > 10000 THEN "InvalidModulePosition"
    ELSE "none"

\* the module record written without its position marker
store_module_without_marker(st, lg, caller, course_id, position, content_hash) ==
    LET module_id == module_id_of(course_id, position, lg.sequence)
        module == [id |-> module_id, course_id |-> course_id, position |-> position,
                   content_hash |-> content_hash, created_at |-> lg.timestamp]
    IN  Ok([st EXCEPT !.module = set(st.module, module_id, module)],
           module,
           << <<"crsAddMod", caller, course_id, position, content_hash>> >>)

\* the module record and the position marker written together
store_module(st, lg, caller, course_id, position, content_hash) ==
    LET module_id == module_id_of(course_id, position, lg.sequence)
        module == [id |-> module_id, course_id |-> course_id, position |-> position,
                   content_hash |-> content_hash, created_at |-> lg.timestamp]
    IN  Ok([st EXCEPT !.module = set(st.module, module_id, module),
                      !.pos = st.pos \cup {<<course_id, position>>}],
           module,
           << <<"crsAddMod", caller, course_id, position, content_hash>> >>)

course_registry_add_module_no_dup_check(st, lg, caller, course_id, position, content_hash) ==
    IF add_module_input_error(course_id, position, content_hash) # "none"
    THEN Fail(st, add_module_input_error(course_id, position, content_hash))
    ELSE IF ~has(st.course, course_id) THEN Fail(st, "CourseIdNotExist")
    ELSE IF ~require_course_management_auth(st, caller, course_id)
    THEN Fail(st, "Unauthorized")
    ELSE store_module(st, lg, caller, course_id, position, content_hash)

course_registry_add_module_no_auth(st, lg, caller, course_id, position, content_hash) ==
    IF add_module_input_error(course_id, position, content_hash) # "none"
    THEN Fail(st, add_module_input_error(course_id, position, content_hash))
    ELSE IF ~has(st.course, course_id) THEN Fail(st, "CourseIdNotExist")
    ELSE IF <<course_id, position>> \in st.pos THEN Fail(st, "DuplicateModulePosition")
    ELSE store_module(st, lg, caller, course_id, position, content_hash)

\* add_module looking at the position marker before the caller
course_registry_add_module_marker_first(st, lg, caller, course_id, position, content_hash) ==
    IF add_module_input_error(course_id, position, content_hash) # "none"
    THEN Fail(st, add_module_input_error(course_id, position, content_hash))
    ELSE IF ~has(st.course, course_id) THEN Fail(st, "CourseIdNotExist")
    ELSE IF <<course_id, position>> \in st.pos THEN Fail(st, "DuplicateModulePosition")
    ELSE IF ~require_course_management_auth(st, caller, course_id)
    THEN Fail(st, "Unauthorized")
    ELSE store_module(st, lg, caller, course_id, position, content_hash)

course_registry_add_module(st, lg, caller, course_id, position, content_hash) ==
    IF add_module_input_error(course_id, position, content_hash) # "none"
    THEN Fail(st, add_module_input_error(course_id, position, content_hash))
    ELSE IF ~has(st.course, course_id) THEN Fail(st, "CourseIdNotExist")
    ELSE IF ~require_course_management_auth(st, caller, course_id)
    THEN Fail(st, "Unauthorized")
    ELSE IF <<course_id, position>> \in st.pos THEN Fail(st, "DuplicateModulePosition")
    ELSE store_module(st, lg, caller, course_id, position, content_hash)

(***************************************************************************)
(* Goals: add_goal, edit_goal, remove_goal                                 *)
(***************************************************************************)
generate_unique_id(st) ==
    [st |-> [st EXCEPT !.goal_seq = st.goal_seq + 1],
     id |-> <<"g">> \o u32_to_string(st.goal_seq + 1)]

is_course_creator(st, course_id, user) ==
    has(st.course, course_id) /\ st.course[course_id].creator = user

\* add_goal with the creator check before the input checks
add_goal_auth_first(st, lg, creator, course_id, content_hash) ==
    LET gen == generate_unique_id(st)
        goal == [course_id |-> course_id, goal_id |-> gen.id,
                 content_hash |-> content_hash, created_by |-> creator,
                 created_at |-> lg.timestamp]
    IN  IF ~has(st.course, course_id) THEN Fail(st, "panic: Course not found")
        ELSE IF st.course[course_id].creator # creator
             THEN Fail(st, "OnlyCreatorCanAddGoals")
        ELSE IF Len(course_id) = 0 THEN Fail(st, "EmptyCourseId")
        ELSE IF is_empty(content_hash) THEN Fail(st, "EmptyGoalContent")
        ELSE IF Len(course_id) > 100 THEN Fail(st, "InvalidCourseId")
        ELSE Ok([gen.st EXCEPT !.goal = set(gen.st.goal, <<course_id, gen.id>>, goal)],
                goal, << <<"goalAdded", course_id, gen.id, content_hash>> >>)

add_goal(st, lg, creator, course_id, content_hash) ==
    LET gen == generate_unique_id(st)
        goal == [course_id |-> course_id, goal_id |-> gen.id,
                 content_hash |-> content_hash, created_by |-> creator,
                 created_at |-> lg.timestamp]
    IN  IF Len(course_id) = 0 THEN Fail(st, "EmptyCourseId")
        ELSE IF is_empty(content_hash) THEN Fail(st, "EmptyGoalContent")
        ELSE IF Len(course_id) > 100 THEN Fail(st, "InvalidCourseId")
        ELSE IF ~has(st.course, course_id) THEN Fail(st, "panic: Course not found")
        ELSE IF st.course[course_id].creator # creator
             THEN Fail(st, "OnlyCreatorCanAddGoals")
        ELSE Ok([gen.st EXCEPT !.goal = set(gen.st.goal, <<course_id, gen.id>>, goal)],
                goal, << <<"goalAdded", course_id, gen.id, content_hash>> >>)

\* edit_goal that gives the new content hash to every goal of the course
edit_goal_whole_course(st, creator, course_id, goal_id, new_content_hash) ==
    LET goal_key == <<course_id, goal_id>>
        goal == [st.goal[goal_key] EXCEPT !.content_hash = new_content_hash]
    IN  IF Len(course_id) = 0 THEN Fail(st, "EmptyCourseId")
        ELSE IF Len(goal_id) = 0 THEN Fail(st, "EmptyGoalId")
        ELSE IF is_empty(new_content_hash) THEN Fail(st, "EmptyNewGoalContent")
        ELSE IF ~has(st.course, course_id) THEN Fail(st, "panic: Course not found")
        ELSE IF ~is_course_creator(st, st.course[course_id].id, creator)
             THEN Fail(st, "Unauthorized")
        ELSE IF ~has(st.goal, goal_key) THEN Fail(st, "panic: Goal not found")
        ELSE Ok([st EXCEPT !.goal = [k \in DOMAIN st.goal |->
                                        IF k[1] = course_id
                                        THEN [st.goal[k] EXCEPT
                                                  !.content_hash = new_content_hash]
                                        ELSE st.goal[k]]],
                goal, << <<"goalEdit", course_id, goal_id, new_content_hash>> >>)

\* edit_goal that saves the goal without its course reference
edit_goal_dropping_course(st, creator, course_id, goal_id, new_content_hash) ==
    LET goal_key == <<course_id, goal_id>>
        goal == [st.goal[goal_key] EXCEPT !.content_hash = new_content_hash,
                                          !.course_id = <<>>]
    IN  IF Len(course_id) = 0 THEN Fail(st, "EmptyCourseId")
        ELSE IF Len(goal_id) = 0 THEN Fail(st, "EmptyGoalId")
        ELSE IF is_empty(new_content_hash) THEN Fail(st, "EmptyNewGoalContent")
        ELSE IF ~has(st.course, course_id) THEN Fail(st, "panic: Course not found")
        ELSE IF ~is_course_creator(st, st.course[course_id].id, creator)
             THEN Fail(st, "Unauthorized")
        ELSE IF ~has(st.goal, goal_key) THEN Fail(st, "panic: Goal not found")
        ELSE Ok([st EXCEPT !.goal = set(st.goal, goal_key, goal)], goal,
                << <<"goalEdit", course_id, goal_id, new_content_hash>> >>)

edit_goal(st, creator, course_id, goal_id, new_content_hash) ==
    LET goal_key == <<course_id, goal_id>>
        goal == [st.goal[goal_key] EXCEPT !.content_hash = new_content_hash]
    IN  IF Len(course_id) = 0 THEN Fail(st, "EmptyCourseId")
        ELSE IF Len(goal_id) = 0 THEN Fail(st, "EmptyGoalId")
        ELSE IF is_empty(new_content_hash) THEN Fail(st, "EmptyNewGoalContent")
        ELSE IF ~has(st.course, course_id) THEN Fail(st, "panic: Course not found")
        ELSE IF ~is_course_creator(st, st.course[course_id].id, creator)
             THEN Fail(st, "Unauthorized")
        ELSE IF ~has(st.goal, goal_key) THEN Fail(st, "panic: Goal not found")
        ELSE Ok([st EXCEPT !.goal = set(st.goal, goal_key, goal)], goal,
                << <<"goalEdit", course_id, goal_id, new_content_hash>> >>)

\* remove_goal that removes every goal of the course
remove_goal_whole_course(st, caller, course_id, goal_id) ==
    LET goal_storage_key == <<course_id, goal_id>>
    IN  IF Len(course_id) = 0 THEN Fail(st, "EmptyCourseId")
        ELSE IF Len(goal_id) = 0 THEN Fail(st, "EmptyGoalId")
        ELSE IF ~has(st.course, course_id) THEN Fail(st, "panic: Course not found")
        ELSE IF st.course[course_id].creator # caller THEN Fail(st, "Unauthorized")
        ELSE IF ~has(st.goal, goal_storage_key) THEN Fail(st, "panic: Goal not found")
        ELSE IF st.goal[goal_storage_key].course_id # course_id
             THEN Fail(st, "GoalCourseMismatch")
        ELSE Ok([st EXCEPT !.goal = [k \in {j \in DOMAIN st.goal : j[1] # course_id} |->
                                        st.goal[k]]],
                None,
                << <<"goalRem", course_id, goal_id,
                     st.goal[goal_storage_key].content_hash>> >>)

\* remove_goal that lets an administrator pass the creator check
remove_goal_admin_override(st, caller, course_id, goal_id) ==
    LET goal_storage_key == <<course_id, goal_id>>
    IN  IF Len(course_id) = 0 THEN Fail(st, "EmptyCourseId")
        ELSE IF Len(goal_id) = 0 THEN Fail(st, "EmptyGoalId")
        ELSE IF ~has(st.course, course_id) THEN Fail(st, "panic: Course not found")
        ELSE IF st.course[course_id].creator # caller /\ ~is_admin(caller)
             THEN Fail(st, "Unauthorized")
        ELSE IF ~has(st.goal, goal_storage_key) THEN Fail(st, "panic: Goal not found")
        ELSE IF st.goal[goal_storage_key].course_id # course_id
             THEN Fail(st, "GoalCourseMismatch")
        ELSE Ok([st EXCEPT !.goal = remove(st.goal, goal_storage_key)], None,
                << <<"goalRem", course_id, goal_id,
                     st.goal[goal_storage_key].content_hash>> >>)

remove_goal(st, caller, course_id, goal_id) ==
    LET goal_storage_key == <<course_id, goal_id>>
    IN  IF Len(course_id) = 0 THEN Fail(st, "EmptyCourseId")
        ELSE IF Len(goal_id) = 0 THEN Fail(st, "EmptyGoalId")
        ELSE IF ~has(st.course, course_id) THEN Fail(st, "panic: Course not found")
        ELSE IF st.course[course_id].creator # caller THEN Fail(st, "Unauthorized")
        ELSE IF ~has(st.goal, goal_storage_key) THEN Fail(st, "panic: Goal not found")
        ELSE IF st.goal[goal_storage_key].course_id # course_id
             THEN Fail(st, "GoalCourseMismatch")
        ELSE Ok([st EXCEPT !.goal = remove(st.goal, goal_storage_key)], None,
                << <<"goalRem", course_id, goal_id,
                     st.goal[goal_storage_key].content_hash>> >>)

(***************************************************************************)
(* list_courses_with_filters                                               *)
(***************************************************************************)
MAX_SCAN_ID == 22
MAX_EMPTY_CHECKS == 2

\* the pagination parameters' validation: the error raised, or "none"
validate_pagination_off_by_one(limit, offset) ==
    IF IsSome(limit) /\ Unwrap(limit) >= 100 THEN "InvalidLimitValue"
    ELSE IF IsSome(offset) /\ Unwrap(offset) >= 10000 THEN "InvalidOffsetValue"
    ELSE "none"

validate_pagination(limit, offset) ==
    IF IsSome(limit) /\ Unwrap(limit) > 100 THEN "InvalidLimitValue"
    ELSE IF IsSome(offset) /\ Unwrap(offset) > 10000 THEN "InvalidOffsetValue"
    ELSE "none"

unwrap_or(o, d) == IF IsSome(o) THEN Unwrap(o) ELSE d

max_limit_uncapped(limit_value) == limit_value

max_limit_of(limit_value) == IF limit_value > 20 THEN 20 ELSE limit_value

\* "Skip archived or unpublished courses"
skipped_only_unpublished(course) == ~course.published

\* "Skip archived or unpublished courses", skipping only the archived
skipped_only_archived(course) == course.is_archived

skipped(course) == course.is_archived \/ ~course.published

passes_filters_without_max_price(filters, course) ==
    /\ (IsSome(filters.min_price) => course.price >= Unwrap(filters.min_price))
    /\ (IsSome(filters.category) => course.category = Some(Unwrap(filters.category)))
    /\ (IsSome(filters.level) => course.level = Some(Unwrap(filters.level)))
    /\ (IsSome(filters.min_duration) =>
            IF IsSome(course.duration_hours)
            THEN Unwrap(course.duration_hours) >= Unwrap(filters.min_duration) ELSE FALSE)
    /\ (IsSome(filters.max_duration) =>
            IF IsSome(course.duration_hours)
            THEN Unwrap(course.duration_hours) <= Unwrap(filters.max_duration) ELSE FALSE)

passes_filters(filters, course) ==
    /\ (IsSome(filters.min_price) => course.price >= Unwrap(filters.min_price))
    /\ (IsSome(filters.max_price) => course.price <= Unwrap(filters.max_price))
    /\ (IsSome(filters.category) => course.category = Some(Unwrap(filters.category)))
    /\ (IsSome(filters.level) => course.level = Some(Unwrap(filters.level)))
    /\ (IsSome(filters.min_duration) =>
            IF IsSome(course.duration_hours)
            THEN Unwrap(course.duration_hours) >= Unwrap(filters.min_duration) ELSE FALSE)
    /\ (IsSome(filters.max_duration) =>
            IF IsSome(course.duration_hours)
            THEN Unwrap(course.duration_hours) <= Unwrap(filters.max_duration) ELSE FALSE)

\* "if matched >= offset_value": the match is past the skipped leading matches
past_offset_strict(matched, offset_value) == matched > offset_value

past_offset(matched, offset_value) == matched >= offset_value

\* The scans return their result together with "examined", the candidates
\* they looked up in storage, in the order of the lookups.
RECURSIVE scan_courses(_, _, _, _, _, _, _, _, _, _)
scan_courses(st, filters, offset_value, max_limit, id, count, matched, empty_checks, results, examined) ==
    IF id > MAX_SCAN_ID \/ empty_checks > MAX_EMPTY_CHECKS
    THEN [results |-> results, examined |-> examined]
    ELSE
        LET course_id == u32_to_string(as_u32(id))
            examined1 == Append(examined, id)
        IN  IF ~has(st.course, course_id)
            THEN scan_courses(st, filters, offset_value, max_limit, id + 1, count, matched,
                              empty_checks + 1, results, examined1)
            ELSE
                LET course == st.course[course_id]
                IN  IF skipped(course)
                    THEN scan_courses(st, filters, offset_value, max_limit, id + 1, count,
                                      matched, 0, results, examined1)
                    ELSE IF passes_filters(filters, course)
                    THEN IF past_offset(matched, offset_value)
                         THEN IF count < max_limit
                              THEN scan_courses(st, filters, offset_value, max_limit, id + 1,
                                                count + 1, matched + 1, 0,
                                                Append(results, course), examined1)
                              ELSE [results |-> results, examined |-> examined1]
                         ELSE scan_courses(st, filters, offset_value, max_limit, id + 1,
                                           count, matched + 1, 0, results, examined1)
                    ELSE scan_courses(st, filters, offset_value, max_limit, id + 1, count,
                                      matched, 0, results, examined1)

\* the scan whose counter of empty checks starts at one
courses_scan_counting_from_one(st, filters, limit, offset) ==
    scan_courses(st, filters, unwrap_or(offset, 0), max_limit_of(unwrap_or(limit, 10)),
                 1, 0, 0, 1, <<>>, <<>>)

\* the scan list_courses_with_filters makes for valid pagination parameters
courses_scan(st, filters, limit, offset) ==
    scan_courses(st, filters, unwrap_or(offset, 0), max_limit_of(unwrap_or(limit, 10)),
                 1, 0, 0, 0, <<>>, <<>>)

list_courses_with_filters(st, filters, limit, offset) ==
    LET v == validate_pagination(limit, offset)
    IN  IF v # "none" THEN Fail(st, v)
        ELSE Ok(st, courses_scan(st, filters, limit, offset).results, <<>>)

(***************************************************************************)
(* get_courses_by_instructor                                               *)
(***************************************************************************)
MAX_LOOP_GUARD == 3

\* "course.creator == instructor && !course.is_archived", without the second
instructor_match_with_archived(course, instructor) == course.creator = instructor

instructor_match(course, instructor) ==
    course.creator = instructor /\ ~course.is_archived

RECURSIVE scan_instructor(_, _, _, _, _)
scan_instructor(st, instructor, id, results, examined) ==
    LET course_id == u32_to_string(as_u32(id))
        examined1 == Append(examined, id)
    IN  IF ~has(st.course, course_id) THEN [results |-> results, examined |-> examined1]
        ELSE LET course == st.course[course_id]
                 results1 == IF instructor_match(course, instructor)
                             THEN Append(results, course) ELSE results
             IN  IF id + 1 > MAX_LOOP_GUARD
                 THEN [results |-> results1, examined |-> examined1]
                 ELSE scan_instructor(st, instructor, id + 1, results1, examined1)

instructor_scan(st, instructor) == scan_instructor(st, instructor, 1, <<>>, <<>>)

get_courses_by_instructor(st, instructor) ==
    Ok(st, instructor_scan(st, instructor).results, <<>>)

(***************************************************************************)
(* list_modules                                                            *)
(***************************************************************************)
\* "while seq < 1000": the sequence numbers probed for a marked position
SEQ_PROBE_LIMIT == 1000

\* the first candidate id stored under (MODULE_KEY, id) ends the probe; the
\* module is kept if its course id is the requested one.  "probed" is the
\* number of candidate ids looked up, of the `limit` the probe may try.
first_probed(st, course_id, position, hits, limit) ==
    IF hits = {} THEN [found |-> <<>>, probed |-> limit]
    ELSE LET seq == CHOOSE s \in hits : \A t \in hits : s <= t
             module == st.module[module_id_of(course_id, position, seq)]
         IN  [found |-> IF module.course_id = course_id THEN <<module>> ELSE <<>>,
              probed |-> seq + 1]

\* the probe over the SEQ_PROBE_LIMIT sequence numbers that end at the
\* current ledger's, instead of those that start at 0
probe_module_recent(st, course_id, position) ==
    first_probed(st, course_id, position,
                 {seq \in 0..ledger.sequence :
                      /\ seq + SEQ_PROBE_LIMIT > ledger.sequence
                      /\ has(st.module, module_id_of(course_id, position, seq))},
                 SEQ_PROBE_LIMIT)

\* the probe over every sequence number up to the current ledger's
probe_module_to_ledger(st, course_id, position) ==
    first_probed(st, course_id, position,
                 {seq \in 0..ledger.sequence :
                      has(st.module, module_id_of(course_id, position, seq))},
                 ledger.sequence + 1)

probe_module(st, course_id, position) ==
    first_probed(st, course_id, position,
                 {seq \in 0..(SEQ_PROBE_LIMIT - 1) :
                      has(st.module, module_id_of(course_id, position, seq))},
                 SEQ_PROBE_LIMIT)

\* "examined" holds, for each position looked up, the number of candidate
\* module ids probed for it (0 for a position without marker)
RECURSIVE scan_positions(_, _, _, _, _, _)
scan_positions(st, course_id, position, empty_streak, modules, examined) ==
    IF ~(position <= MAX_LOOP_GUARD /\ empty_streak <= MAX_EMPTY_CHECKS)
    THEN [results |-> modules, examined |-> examined]
    ELSE IF <<course_id, position>> \in st.pos
    THEN LET probe == probe_module(st, course_id, position)
         IN  scan_positions(st, course_id, position + 1, 0, modules \o probe.found,
                            Append(examined, [position |-> position, probed |-> probe.probed]))
    ELSE scan_positions(st, course_id, position + 1, empty_streak + 1, modules,
                        Append(examined, [position |-> position, probed |-> 0]))

\* the scan of the positions that starts at position 1
positions_scan_from_one(st, course_id) == scan_positions(st, course_id, 1, 0, <<>>, <<>>)

positions_scan(st, course_id) == scan_positions(st, course_id, 0, 0, <<>>, <<>>)

\* list_modules pushing each module found to the front of the result
list_modules_last_first(st, course_id) ==
    IF Len(course_id) = 0 THEN Fail(st, "EmptyCourseId")
    ELSE IF ~has(st.course, course_id) THEN Fail(st, "CourseIdNotExist")
    ELSE LET found == positions_scan(st, course_id).results
         IN  Ok(st, [r \in 1..Len(found) |-> found[Len(found) + 1 - r]], <<>>)

list_modules(st, course_id) ==
    IF Len(course_id) = 0 THEN Fail(st, "EmptyCourseId")
    ELSE IF ~has(st.course, course_id) THEN Fail(st, "CourseIdNotExist")
    ELSE Ok(st, positions_scan(st, course_id).results, <<>>)

(***************************************************************************)
(* user_profile: get_user_profile, get_user_profile_with_privacy           *)
(***************************************************************************)
\* the lookup that returns a stored profile, whose ever it is
user_profile_get_any_profile(st, user_address) ==
    IF DOMAIN st.profile # {}
    THEN Ok(st, st.profile[CHOOSE a \in DOMAIN st.profile : TRUE], <<>>)
    ELSE Fail(st, "UserProfileNotFound")

user_profile_get_user_profile(st, user_address) ==
    IF has(st.profile, user_address) THEN Ok(st, st.profile[user_address], <<>>)
    ELSE Fail(st, "UserProfileNotFound")

get_user_profile(st, user_address) == user_profile_get_user_profile(st, user_address)

\* the lookup that shows the DID hash to the profile's owner only
get_user_profile_with_privacy_gated(st, user_address, requester_address) ==
    LET out == user_profile_get_user_profile(st, user_address)
    IN  IF out.err = "none" /\ requester_address # user_address
        THEN [out EXCEPT !.ret.did_hash = None]
        ELSE out

get_user_profile_with_privacy(st, user_address, requester_address) ==
    user_profile_get_user_profile(st, user_address)

(***************************************************************************)
(* contract_versioning: is_version_compatible, migrate_course_data,        *)
(* migrate_access_data, get_migration_status, get_version_history          *)
(***************************************************************************)
Dot == "."

\* the characters of a version string before its first dot
RECURSIVE major_segment(_)
major_segment(version) ==
    IF version = <<>> \/ Head(version) = Dot THEN <<>>
    ELSE <<Head(version)>> \o major_segment(Tail(version))

\* "same major segment => compatible"
is_version_compatible(from_version, to_version) ==
    major_segment(from_version) = major_segment(to_version)

MIGRATION_STATUS_NONE == "none"

\* the status a migration records
migration_completed(from_version, to_version) == <<"completed", from_version, to_version>>
migration_failed(from_version, to_version) == <<"failed", from_version, to_version>>

\* the version manager of a contract, on its history and status: the new
\* history and status, the value returned and the event.  Whether a refused
\* migration between incompatible versions records a status is left open
\* (failure_recorded).
migrate_data_replacing_history(caller, from_version, to_version, history, status, failure_recorded) ==
    IF ~is_admin(caller) THEN [err |-> "Unauthorized"]
    ELSE IF ~is_version_compatible(from_version, to_version)
    THEN [err |-> "none", history |-> history,
          status |-> IF failure_recorded THEN <<migration_failed(from_version, to_version)>>
                     ELSE status,
          ret |-> FALSE, events |-> <<>>]
    ELSE [err |-> "none", history |-> <<to_version>>,
          status |-> <<migration_completed(from_version, to_version)>>,
          ret |-> TRUE, events |-> << <<"migrated", from_version, to_version>> >>]

migrate_data(caller, from_version, to_version, history, status, failure_recorded) ==
    IF ~is_admin(caller) THEN [err |-> "Unauthorized"]
    ELSE IF ~is_version_compatible(from_version, to_version)
    THEN [err |-> "none", history |-> history,
          status |-> IF failure_recorded THEN <<migration_failed(from_version, to_version)>>
                     ELSE status,
          ret |-> FALSE, events |-> <<>>]
    ELSE [err |-> "none", history |-> Append(history, to_version),
          status |-> <<migration_completed(from_version, to_version)>>,
          ret |-> TRUE, events |-> << <<"migrated", from_version, to_version>> >>]

migrate_course_data(st, caller, from_version, to_version, failure_recorded) ==
    LET m == migrate_data(caller, from_version, to_version, st.versions, st.migration,
                          failure_recorded)
    IN  IF m.err # "none" THEN Fail(st, m.err)
        ELSE Ok([st EXCEPT !.versions = m.history, !.migration = m.status], m.ret, m.events)

migrate_access_data(st, caller, from_version, to_version, failure_recorded) ==
    LET m == migrate_data(caller, from_version, to_version, st.access_versions,
                          st.access_migration, failure_recorded)
    IN  IF m.err # "none" THEN Fail(st, m.err)
        ELSE Ok([st EXCEPT !.access_versions = m.history, !.access_migration = m.status],
                m.ret, m.events)

\* the status recorded last, MIGRATION_STATUS_NONE if none was
migration_status_of(status) == IF status = <<>> THEN MIGRATION_STATUS_NONE ELSE status[1]

get_migration_status(st) == Ok(st, migration_status_of(st.migration), <<>>)
access_get_migration_status(st) == Ok(st, migration_status_of(st.access_migration), <<>>)

get_version_history(st) == Ok(st, st.versions, <<>>)
access_get_version_history(st) == Ok(st, st.access_versions, <<>>)

(***************************************************************************)
(* Inputs of the calls.                                                    *)
(***************************************************************************)
Creators == {"alice", "bob"}

CreateArgs(ref, hash, price, category, language, level, duration) ==
    [off_chain_ref_id |-> ref, content_hash |-> hash, price |-> price,
     category |-> category, language |-> language, level |-> level,
     duration_hours |-> duration]

PlainCourse == CreateArgs("ref1", "h001", 5, None, None, None, None)
RichCourse ==
    CreateArgs("ref2", "h002", 9, Some("catA"), Some("engl"), Some("Beginner"), Some(3))

ValidCreateArgs == {PlainCourse, RichCourse}

InvalidCreateArgs ==
    {CreateArgs("", "h001", 5, None, None, None, None),
     CreateArgs("ref1", "", 5, None, None, None, None),
     CreateArgs("ref1", "h001", 0, None, None, None, None),
     CreateArgs("ref1", "h001", 5, Some(""), None, None, None),
     CreateArgs("ref1", "h001", 5, Some("cat101"), None, None, None),
     CreateArgs("ref1", "h001", 5, None, Some("lang51"), None, None),
     CreateArgs("ref1", "h001", 5, None, None, None, Some(0)),
     CreateArgs("ref1", "h001", 5, None, None, None, Some(8761))}

NoEdit ==
    [new_content_hash |-> None, new_off_chain_ref_id |-> None, new_price |-> None,
     new_category |-> None, new_language |-> None, new_published |-> None,
     new_level |-> None, new_duration_hours |-> None]

ValidEditParams ==
    {[NoEdit EXCEPT !.new_published = Some(TRUE), !.new_price = Some(7),
                    !.new_category = Some(Some("catB"))]}

InvalidEditParams ==
    {[NoEdit EXCEPT !.new_content_hash = Some("")],
     [NoEdit EXCEPT !.new_published = Some(TRUE), !.new_off_chain_ref_id = Some("")],
     [NoEdit EXCEPT !.new_published = Some(TRUE), !.new_price = Some(0)]}

\* the ids of the first n courses, and one that no course has
AbsentCourseId == <<"9", "9">>
CourseIdInputs(n) == {u32_to_string(i) : i \in 1..n} \cup {AbsentCourseId}
LongCourseId == [i \in 1..101 |-> "9"]

Filters(min_price, max_price, category, level, min_duration, max_duration) ==
    [min_price |-> min_price, max_price |-> max_price, category |-> category,
     level |-> level, min_duration |-> min_duration, max_duration |-> max_duration]

NoFilter == Filters(None, None, None, None, None, None)

FilterInputs ==
    {NoFilter,
     Filters(Some(6), None, None, None, None, None),
     Filters(None, Some(6), None, None, None, None),
     Filters(None, None, Some("catA"), None, None, None),
     Filters(None, None, None, Some("Beginner"), None, None),
     Filters(None, None, None, None, Some(2), None),
     Filters(None, None, None, None, None, Some(2)),
     Filters(Some(6), Some(8), Some("catB"), None, None, None)}

LimitInputs == {None, Some(0), Some(1), Some(20), Some(21), Some(100), Some(101)}

\* <<filters, limit, offset>> of the list calls
ListInputs ==
    {<<f, None, None>> : f \in FilterInputs}
        \cup {<<NoFilter, l, None>> : l \in LimitInputs}
        \cup {<<NoFilter, None, o>> : o \in {Some(10000), Some(10001)}}
        \cup {<<NoFilter, Some(100), Some(10001)>>, <<NoFilter, Some(101), Some(10001)>>,
              <<NoFilter, Some(0), Some(0)>>, <<NoFilter, Some(1), Some(1)>>,
              <<NoFilter, Some(20), Some(3)>>,
              <<Filters(Some(6), None, None, None, None, None), Some(20), Some(1)>>,
              <<Filters(None, None, None, Some("Beginner"), None, None), Some(1), Some(3)>>}

(***************************************************************************)
(* The calls as actions.                                                   *)
(***************************************************************************)
\* the target versions of the migrations that succeeded, per contract
NoMigrations == [course_registry |-> <<>>, course_access |-> <<>>]

NoCall(op) ==
    [op |-> op, args |-> None, err |-> "none", ret |-> None, events |-> <<>>,
     dirty |-> FALSE]

Init ==
    /\ storage = EmptyStorage
    /\ ledger = [timestamp |-> 0, sequence |-> 0]
    /\ last = NoCall("init")
    /\ hist = [created |-> 0, rejected |-> FALSE, added |-> {},
               times |-> [c \in Addresses |-> <<>>], limited |-> {}, archived |-> {},
               seen |-> <<>>, published |-> {}, migrated |-> NoMigrations,
               goal_ids |-> <<>>, removed |-> {},
               saved |-> EmptyFcn, issued |-> EmptyFcn]

\* The host runs the call to its end and commits or discards its writes.
\* last.dirty records whether the call had written to storage when it ended.
Call(op, args, out) ==
    /\ storage' = HostCommit(storage, out)
    /\ last' = [op |-> op, args |-> args, err |-> out.err, ret |-> out.ret,
                events |-> out.events, dirty |-> out.st # storage]
    /\ UNCHANGED ledger

\* hist.seen is the first read call since the storage last changed: a call
\* that changes the storage ends its remembrance
AfterWrite(h) == [h EXCEPT !.seen = IF storage' = storage THEN @ ELSE <<>>]

\* hist.seen after one more read call: the call is remembered if none is;
\* otherwise "between" records that a different read call followed the
\* remembered one, and "again" that the remembered call was then repeated
Remember(seen, op, args, out) ==
    IF seen = <<>>
    THEN <<[op |-> op, args |-> args, err |-> out.err, ret |-> out.ret,
            between |-> FALSE, again |-> FALSE]>>
    ELSE IF seen[1].op = op /\ seen[1].args = args
    THEN <<[seen[1] EXCEPT !.again = seen[1].between]>>
    ELSE <<[seen[1] EXCEPT !.between = TRUE]>>

Read(op, args, out) ==
    /\ Call(op, args, out)
    /\ hist' = [hist EXCEPT !.seen = Remember(@, op, args, out)]

CreateCourse(creator, a) ==
    LET out == create_course(storage, ledger.timestamp, creator, a)
    IN  /\ Call("create_course", [creator |-> creator, a |-> a], out)
        /\ hist' = [AfterWrite(hist) EXCEPT
                        !.created = IF out.err = "none" THEN @ + 1 ELSE @,
                                !.rejected = @ \/ out.err # "none",
                                !.times[creator] =
                                    IF out.err = "none" THEN Append(@, ledger.timestamp)
                                    ELSE @,
                                !.limited = IF out.err = "RateLimitExceeded"
                                            THEN @ \cup {creator} ELSE @]

EditCourse(creator, course_id, p) ==
    LET out == edit_course(storage, creator, course_id, p)
    IN  /\ Call("edit_course", [creator |-> creator, course_id |-> course_id, params |-> p],
                out)
        /\ hist' = [AfterWrite(hist) EXCEPT
                        !.published = IF out.err = "none" /\ p.new_published = Some(TRUE)
                                      THEN @ \cup {course_id} ELSE @]

ArchiveCourse(creator, course_id) ==
    LET out == archive_course(storage, creator, course_id)
    IN  /\ Call("archive_course", [creator |-> creator, course_id |-> course_id], out)
        /\ hist' = [AfterWrite(hist) EXCEPT !.archived = IF out.err = "none"
                                             THEN @ \cup {course_id} ELSE @]

DeleteCourse(creator, course_id) ==
    /\ Call("delete_course", [creator |-> creator, course_id |-> course_id],
            delete_course(storage, creator, course_id))
    /\ hist' = AfterWrite(hist)

AddModule(caller, course_id, position, content_hash) ==
    LET out == course_registry_add_module(storage, ledger, caller, course_id, position,
                                          content_hash)
    IN  /\ Call("add_module",
                [caller |-> caller, course_id |-> course_id, position |-> position,
                 content_hash |-> content_hash], out)
        /\ hist' = [AfterWrite(hist) EXCEPT
                        !.added = IF out.err = "none"
                                  THEN @ \cup {<<course_id, position>>} ELSE @,
                        !.issued = IF out.err = "none"
                                   THEN set(@, out.ret.id,
                                            IF has(@, out.ret.id) THEN @[out.ret.id] + 1
                                            ELSE 1)
                                   ELSE @]

AddGoal(creator, course_id, content_hash) ==
    /\ Call("add_goal",
            [creator |-> creator, course_id |-> course_id, content_hash |-> content_hash],
            add_goal(storage, ledger, creator, course_id, content_hash))
    /\ hist' = [AfterWrite(hist) EXCEPT
                    !.goal_ids = IF last'.err = "none" THEN Append(@, last'.ret.goal_id) ELSE @]

EditGoal(creator, course_id, goal_id, new_content_hash) ==
    /\ Call("edit_goal",
            [creator |-> creator, course_id |-> course_id, goal_id |-> goal_id,
             new_content_hash |-> new_content_hash],
            edit_goal(storage, creator, course_id, goal_id, new_content_hash))
    /\ hist' = AfterWrite(hist)

RemoveGoal(caller, course_id, goal_id) ==
    /\ Call("remove_goal", [caller |-> caller, course_id |-> course_id, goal_id |-> goal_id],
            remove_goal(storage, caller, course_id, goal_id))
    /\ hist' = [AfterWrite(hist) EXCEPT
                    !.removed = IF last'.err = "none" THEN @ \cup {<<course_id, goal_id>>}
                                ELSE @]

ListCourses(filters, limit, offset) ==
    /\ Call("list_courses_with_filters",
            [filters |-> filters, limit |-> limit, offset |-> offset],
            list_courses_with_filters(storage, filters, limit, offset))
    /\ UNCHANGED hist

GetCoursesByInstructor(instructor) ==
    /\ Call("get_courses_by_instructor", [instructor |-> instructor],
            get_courses_by_instructor(storage, instructor))
    /\ UNCHANGED hist

ListModules(course_id) ==
    Read("list_modules", [course_id |-> course_id], list_modules(storage, course_id))

ReadListCourses(filters, limit, offset) ==
    Read("list_courses_with_filters",
         [filters |-> filters, limit |-> limit, offset |-> offset],
         list_courses_with_filters(storage, filters, limit, offset))

ReadCoursesByInstructor(instructor) ==
    Read("get_courses_by_instructor", [instructor |-> instructor],
         get_courses_by_instructor(storage, instructor))

GetUserProfile(user_address) ==
    /\ Call("get_user_profile", [user_address |-> user_address],
            get_user_profile(storage, user_address))
    /\ UNCHANGED hist

GetUserProfileWithPrivacy(user_address, requester_address) ==
    /\ Call("get_user_profile_with_privacy",
            [user_address |-> user_address, requester_address |-> requester_address],
            get_user_profile_with_privacy(storage, user_address, requester_address))
    /\ UNCHANGED hist

\* n ledgers close
MigrateCourseData(caller, from_version, to_version, failure_recorded) ==
    LET out == migrate_course_data(storage, caller, from_version, to_version, failure_recorded)
    IN  /\ Len(storage.versions) < MaxMigrations
        /\ Call("migrate_course_data",
                [caller |-> caller, from_version |-> from_version, to_version |-> to_version],
                out)
        /\ hist' = [AfterWrite(hist) EXCEPT
                        !.migrated.course_registry =
                            IF out.err = "none" /\ out.ret THEN Append(@, to_version) ELSE @]

MigrateAccessData(caller, from_version, to_version, failure_recorded) ==
    LET out == migrate_access_data(storage, caller, from_version, to_version, failure_recorded)
    IN  /\ Len(storage.access_versions) < MaxMigrations
        /\ Call("migrate_access_data",
                [caller |-> caller, from_version |-> from_version, to_version |-> to_version],
                out)
        /\ hist' = [AfterWrite(hist) EXCEPT
                        !.migrated.course_access =
                            IF out.err = "none" /\ out.ret THEN Append(@, to_version) ELSE @]

GetMigrationStatus ==
    /\ Call("get_migration_status", None, get_migration_status(storage))
    /\ UNCHANGED hist

AccessGetMigrationStatus ==
    /\ Call("access_get_migration_status", None, access_get_migration_status(storage))
    /\ UNCHANGED hist

GetVersionHistory ==
    /\ Call("get_version_history", None, get_version_history(storage))
    /\ UNCHANGED hist

AccessGetVersionHistory ==
    /\ Call("access_get_version_history", None, access_get_version_history(storage))
    /\ UNCHANGED hist

IsVersionCompatible(from_version, to_version) ==
    /\ Call("is_version_compatible", [from_version |-> from_version, to_version |-> to_version],
            Ok(storage, is_version_compatible(from_version, to_version), <<>>))
    /\ UNCHANGED hist

LedgersClose(n) ==
    /\ ledger.sequence + n <= MaxSequence
    /\ ledger' = [timestamp |-> ledger.timestamp + n, sequence |-> ledger.sequence + n]
    /\ last' = NoCall("ledger_close")
    /\ UNCHANGED <<storage, hist>>

\* the ledger closes: time and the ledger sequence number advance
LedgerClose ==
    /\ ledger.timestamp < MaxTime
    /\ ledger' = [timestamp |-> ledger.timestamp + 1, sequence |-> ledger.sequence + 1]
    /\ last' = NoCall("ledger_close")
    /\ UNCHANGED <<storage, hist>>

(***************************************************************************)
(* Spec: course creation, the id counter and the rate limiter, over        *)
(* ledger time.                                                            *)
(***************************************************************************)
Next ==
    \/ \E creator \in Creators, a \in ValidCreateArgs \cup InvalidCreateArgs :
           storage.course_id < MaxCourses /\ CreateCourse(creator, a)
    \/ LedgerClose

Spec == Init /\ [][Next]_vars

(***************************************************************************)
(* EditSpec: the life of a course: created, edited, archived, deleted.     *)
(***************************************************************************)
EditNext ==
    \/ \E creator \in Creators :
           /\ storage.course_id < MaxEditCourses
           /\ CreateCourse(creator, IF creator = "alice" THEN PlainCourse ELSE RichCourse)
    \/ \E creator \in Addresses, id \in CourseIdInputs(MaxEditCourses),
          p \in ValidEditParams \cup InvalidEditParams :
           EditCourse(creator, id, p)
    \/ \E creator \in Creators :
           EditCourse(creator, <<"2">>, [NoEdit EXCEPT !.new_price = Some(8)])
    \/ \E creator \in Creators : ArchiveCourse(creator, <<"1">>)
    \/ \E creator \in Creators : DeleteCourse(creator, <<"1">>)
    \/ \E f \in {NoFilter, Filters(None, Some(6), None, None, None, None)} :
           ListCourses(f, None, None)
    \/ \E instructor \in Addresses : GetCoursesByInstructor(instructor)

EditSpec == Init /\ [][EditNext]_vars

(***************************************************************************)
(* ModSpec: modules added to courses.                                      *)
(***************************************************************************)
\* add_module calls that fail an input check, whoever makes them
InvalidModuleInputs ==
    {<<"alice", <<>>, 1, "h001">>,
     <<"alice", <<"1">>, 1, "">>,
     <<"bob", <<"1">>, 1, "">>,
     <<"admin", <<>>, 1, "">>,
     <<"alice", LongCourseId, 1, "h001">>,
     <<"alice", <<"1">>, 10001, "h001">>,
     <<"bob", <<"1">>, 10001, "h001">>,
     <<"bob", AbsentCourseId, 10001, "h001">>}

ModNext ==
    \/ \E creator \in Creators :
           storage.course_id < MaxModCourses /\ CreateCourse(creator, PlainCourse)
    \/ \E caller \in Addresses, id \in CourseIdInputs(MaxModCourses),
          content_hash \in {"h001", "h002"} :
           AddModule(caller, id, 1, content_hash)
    \/ \E caller \in Addresses : AddModule(caller, <<"1">>, 2, "h001")
    \/ \E i \in InvalidModuleInputs : AddModule(i[1], i[2], i[3], i[4])
    \/ \E creator \in Creators : DeleteCourse(creator, <<"1">>)

ModSpec == Init /\ [][ModNext]_vars

(***************************************************************************)
(* TxSpec: the six mutating calls, with the inputs that make each of their *)
(* checks fail.  alice creates the courses; bob and the administrator are  *)
(* the other callers.                                                      *)
(***************************************************************************)
GoalIdInputs == {<<"g", "1">>, <<"g", "9">>, <<>>}

TxNext ==
    \/ \E a \in {PlainCourse} \cup InvalidCreateArgs :
           storage.course_id < MaxTxCourses /\ CreateCourse("alice", a)
    \/ \E creator \in Creators, id \in {<<"1">>, AbsentCourseId},
          p \in {[NoEdit EXCEPT !.new_published = Some(TRUE)]} \cup InvalidEditParams :
           EditCourse(creator, id, p)
    \/ \E i \in {<<"alice", <<"1">>, 1, "h001">>, <<"bob", <<"1">>, 1, "h001">>,
                 <<"alice", <<"1">>, 1, "">>, <<"alice", <<"1">>, 10001, "h001">>,
                 <<"bob", <<"1">>, 1, "">>, <<"alice", AbsentCourseId, 10001, "h001">>,
                 <<"alice", AbsentCourseId, 1, "h001">>, <<"alice", <<>>, 1, "h001">>} :
           AddModule(i[1], i[2], i[3], i[4])
    \/ \E i \in {<<"alice", <<"1">>, "h001">>, <<"bob", <<"1">>, "h001">>,
                 <<"alice", <<"1">>, "">>, <<"alice", <<>>, "h001">>,
                 <<"bob", <<"1">>, "">>, <<"alice", AbsentCourseId, "">>,
                 <<"alice", LongCourseId, "h001">>, <<"alice", AbsentCourseId, "h001">>,
                 <<"admin", <<"1">>, "h001">>} :
           storage.goal_seq < MaxGoals /\ AddGoal(i[1], i[2], i[3])
    \/ \E creator \in Creators, id \in {<<"1">>, AbsentCourseId, <<>>},
          goal_id \in GoalIdInputs, hash \in {"h002", ""} :
           EditGoal(creator, id, goal_id, hash)
    \/ \E caller \in Creators, id \in {<<"1">>, AbsentCourseId, <<>>},
          goal_id \in GoalIdInputs :
           RemoveGoal(caller, id, goal_id)
    \/ EditGoal("admin", <<"1">>, <<"g", "1">>, "h002")
    \/ RemoveGoal("admin", <<"1">>, <<"g", "1">>)

TxSpec == Init /\ [][TxNext]_vars

(***************************************************************************)
(* ReadSpec: the three read calls over a course of one creator and its     *)
(* modules, while ledgers close, up to sequence number MaxSequence.        *)
(***************************************************************************)
ReadNext ==
    \/ storage.course_id < MaxReadCourses /\ CreateCourse("alice", PlainCourse)
    \/ \E position \in 1..2 : AddModule("alice", <<"1">>, position, "h001")
    \/ \E course_id \in CourseIdInputs(MaxReadCourses) \cup {<<>>} : ListModules(course_id)
    \/ ReadListCourses(NoFilter, None, None)
    \/ \E instructor \in Creators : ReadCoursesByInstructor(instructor)
    \/ \E n \in {SEQ_PROBE_LIMIT - 1, SEQ_PROBE_LIMIT} : LedgersClose(n)

ReadSpec == Init /\ [][ReadNext]_vars

(***************************************************************************)
(* ListSpec: list_courses_with_filters over registries of up to MaxListed  *)
(* courses.  A registry of n courses is the one reached from the empty     *)
(* registry by n create_course calls, alice creating the odd ids and bob   *)
(* the even ones, RATE_LIMIT_MAX each per rate-limit window, every course  *)
(* but the fifth then published by its creator through edit_course.  From  *)
(* there the first courses are deleted and the fourth archived by calls;   *)
(* in the registry of six courses the fifth is deleted as well.            *)
(***************************************************************************)
CreatorOf(i) == IF i % 2 = 1 THEN "alice" ELSE "bob"

\* the arguments course i was created with
ListedArgs(i) ==
    CreateArgs("ref1", "h001", 5 + (i % 4),
               IF i % 3 = 0 THEN Some("catA") ELSE IF i % 3 = 1 THEN Some("catB") ELSE None,
               None,
               IF i % 2 = 0 THEN Some("Beginner") ELSE None,
               IF i % 5 = 0 THEN None ELSE Some(i % 5))

\* the record create_course stored for course i, after its publication
ListedCourse(i) ==
    LET a == ListedArgs(i)
    IN  [id |-> u32_to_string(i),
         off_chain_ref_id |-> a.off_chain_ref_id,
         content_hash |-> a.content_hash,
         creator |-> CreatorOf(i),
         price |-> a.price,
         category |-> a.category,
         language |-> a.language,
         published |-> (i # 5),
         prerequisites |-> <<>>,
         is_archived |-> FALSE,
         level |-> a.level,
         duration_hours |-> a.duration_hours]

\* the ledger time at which course i was created
CreatedAt(i) == RATE_LIMIT_WINDOW * ((i - 1) \div (2 * RATE_LIMIT_MAX))

\* the rate-limit record of a creator whose latest course is course i
RateRecordAfter(i) ==
    [count |-> ((i - 1) % (2 * RATE_LIMIT_MAX)) \div 2 + 1, window_start |-> CreatedAt(i)]

ListedRegistry(n) ==
    [EmptyStorage EXCEPT
        !.course = [id \in {u32_to_string(i) : i \in 1..n} |-> ListedCourse(DecimalValue(id))],
        !.course_id = n,
        !.rate = [c \in {CreatorOf(i) : i \in 1..n} |->
                     IF CreatorOf(n) = c THEN RateRecordAfter(n) ELSE RateRecordAfter(n - 1)]]

ListInit ==
    \E n \in 0..MaxListed :
        /\ storage = ListedRegistry(n)
        /\ ledger = [timestamp |-> IF n = 0 THEN 0 ELSE CreatedAt(n),
                     sequence |-> IF n = 0 THEN 0 ELSE CreatedAt(n)]
        /\ last = NoCall("init")
        /\ hist = [created |-> n, rejected |-> FALSE, added |-> {},
                   times |-> [c \in Addresses |->
                                 IF c = "alice" THEN [k \in 1..((n + 1) \div 2) |-> CreatedAt(2 * k - 1)]
                                 ELSE IF c = "bob" THEN [k \in 1..(n \div 2) |-> CreatedAt(2 * k)]
                                 ELSE <<>>],
                   limited |-> {}, archived |-> {}, seen |-> <<>>,
                   published |-> {u32_to_string(i) : i \in (1..n) \ {5}},
                   migrated |-> NoMigrations,
               goal_ids |-> <<>>, removed |-> {},
               saved |-> EmptyFcn, issued |-> EmptyFcn]

ListNext ==
    \/ \E i \in ListInputs : ListCourses(i[1], i[2], i[3])
    \/ ArchiveCourse(CreatorOf(4), u32_to_string(4))
    \/ \E i \in 1..(MAX_EMPTY_CHECKS + 1) : DeleteCourse(CreatorOf(i), u32_to_string(i))
    \/ /\ storage.course_id = MAX_EMPTY_CHECKS + 4
       /\ DeleteCourse(CreatorOf(MAX_EMPTY_CHECKS + 3), u32_to_string(MAX_EMPTY_CHECKS + 3))

ListSpec == ListInit /\ [][ListNext]_vars

(***************************************************************************)
(* ScanSpec: the three scans over a registry of one course and one of      *)
(* MaxListed courses, the first course receiving modules at position 0, at  *)
(* MAX_LOOP_GUARD and past it, before and after SEQ_PROBE_LIMIT ledgers     *)
(* close.                                                                  *)
(***************************************************************************)
ScanInit == ListInit /\ storage.course_id \in {1, MaxListed}

ScanNext ==
    \/ \E position \in {0, MAX_LOOP_GUARD, MAX_LOOP_GUARD + 1} :
           AddModule(CreatorOf(1), u32_to_string(1), position, "h001")
    \/ \E course_id \in {u32_to_string(1), <<>>} : ListModules(course_id)
    \/ \E f \in {NoFilter, Filters(Some(9), None, None, None, None, None)} :
           ListCourses(f, None, None)
    \/ \E instructor \in Creators : GetCoursesByInstructor(instructor)
    \/ \E n \in {SEQ_PROBE_LIMIT - 1, SEQ_PROBE_LIMIT} : LedgersClose(n)

ScanSpec == ScanInit /\ [][ScanNext]_vars

(***************************************************************************)
(* IdSpec: modules added to the courses create_course made, at positions   *)
(* and ledger sequence numbers of one and two digits, up to the largest    *)
(* position and past it; the ledger sequence number goes from 0 to 1 and   *)
(* from 1 to MaxIdSequence.  Nothing is deleted.                           *)
(***************************************************************************)
IdCourses == {u32_to_string(i) : i \in 1..MaxIdCourses}
IdPositions == {1, 11, 10000, 10001}

IdNext ==
    \/ /\ storage.course_id < MaxIdCourses
       /\ CreateCourse(CreatorOf(storage.course_id + 1), PlainCourse)
    \/ \E position \in IdPositions :
           AddModule(CreatorOf(1), u32_to_string(1), position, "h001")
    \/ \E caller \in {CreatorOf(1), CreatorOf(2)} :
           AddModule(caller, u32_to_string(2), 1, "h002")
    \/ ledger.sequence = 0 /\ LedgersClose(1)
    \/ ledger.sequence = 1 /\ LedgersClose(MaxIdSequence - 1)

IdSpec == Init /\ [][IdNext]_vars

(***************************************************************************)
(* ProfileSpec: the user_profile contract over the stores in which each    *)
(* address has no profile or one of its profiles.  The contract has no     *)
(* call that writes; its profiles are put in its storage from outside.     *)
(***************************************************************************)
\* the profiles an address may have
ProfilesOf(address) ==
    {[address |-> address, off_chain_ref_id |-> ref, did_hash |-> did,
      created_at |-> 0, updated_at |-> 0] :
        ref \in {"usr1", "usr2"}, did \in {None, Some("did1")}}

ProfileStores ==
    {f \in [Addresses -> {None} \cup {Some(p) : p \in UNION {ProfilesOf(a) : a \in Addresses}}] :
        \A a \in Addresses : f[a] # None => f[a][1].address = a}

(***************************************************************************)
(* FieldSpec: the fields of two courses, created by alice and by bob with  *)
(* every optional field present: edit_course supplies one parameter at a   *)
(* time, with values inside and outside the bounds create_course enforces, *)
(* once the first course holds a module and a goal, and while fewer than   *)
(* MaxFieldEdits fields differ from the values the courses were created    *)
(* with.                                                                   *)
(***************************************************************************)
FieldEdits ==
    {NoEdit,
     [NoEdit EXCEPT !.new_content_hash = Some("h003")],
     [NoEdit EXCEPT !.new_off_chain_ref_id = Some("ref3")],
     [NoEdit EXCEPT !.new_price = Some(7)],
     [NoEdit EXCEPT !.new_category = Some(Some("catB"))],
     [NoEdit EXCEPT !.new_category = Some(None)],
     [NoEdit EXCEPT !.new_language = Some(Some("fren"))],
     [NoEdit EXCEPT !.new_published = Some(TRUE)],
     [NoEdit EXCEPT !.new_level = Some(Some("Advanced"))],
     [NoEdit EXCEPT !.new_duration_hours = Some(Some(8760))],
     [NoEdit EXCEPT !.new_duration_hours = Some(Some(0))],
     [NoEdit EXCEPT !.new_duration_hours = Some(Some(8761))],
     [NoEdit EXCEPT !.new_category = Some(Some(""))],
     [NoEdit EXCEPT !.new_category = Some(Some("cat101"))],
     [NoEdit EXCEPT !.new_language = Some(Some(""))],
     [NoEdit EXCEPT !.new_language = Some(Some("lang51"))]}

\* the number of editable fields of stored courses that differ from the
\* values the courses were created with
FieldsEdited ==
    Cardinality({cf \in (DOMAIN storage.course) \X (DOMAIN RichCourse \cup {"published"}) :
                    storage.course[cf[1]][cf[2]] #
                        (IF cf[2] = "published" THEN FALSE ELSE RichCourse[cf[2]])})

FieldNext ==
    \/ \E a \in {RichCourse} \cup InvalidCreateArgs :
           /\ storage.course_id < MaxFieldCourses
           /\ CreateCourse(CreatorOf(storage.course_id + 1), a)
    \/ /\ storage.course_id = MaxFieldCourses /\ storage.pos = {}
       /\ AddModule(CreatorOf(1), u32_to_string(1), 1, "h001")
    \/ /\ storage.pos # {} /\ storage.goal_seq = 0
       /\ AddGoal(CreatorOf(1), u32_to_string(1), "h001")
    \/ \E creator \in Creators, course_id \in {u32_to_string(1), u32_to_string(2)},
          p \in FieldEdits :
           /\ storage.goal_seq > 0 /\ FieldsEdited < MaxFieldEdits
           /\ EditCourse(creator, course_id, p)

FieldSpec == Init /\ [][FieldNext]_vars

(***************************************************************************)
(* GoalSpec: the goals of two courses, the first created by alice and the  *)
(* second by bob: goals are added, edited and removed by both creators, in *)
(* any order.                                                              *)
(***************************************************************************)
GoalCourses == {u32_to_string(1), u32_to_string(2)}
GoalIds == {<<"g">> \o u32_to_string(i) : i \in 1..3}

GoalNext ==
    \/ /\ storage.course_id < MaxGoalCourses
       /\ CreateCourse(CreatorOf(storage.course_id + 1), PlainCourse)
    \/ \E creator \in Creators, course_id \in GoalCourses :
           storage.goal_seq < MaxGoalAdds /\ AddGoal(creator, course_id, "h001")
    \/ \E creator \in Creators, course_id \in GoalCourses, goal_id \in GoalIds,
          hash \in {"h002", ""} :
           EditGoal(creator, course_id, goal_id, hash)
    \/ \E caller \in Creators, course_id \in GoalCourses, goal_id \in GoalIds :
           RemoveGoal(caller, course_id, goal_id)

GoalSpec == Init /\ [][GoalNext]_vars

(***************************************************************************)
(* MigSpec: the version managers of course_registry and course_access,     *)
(* migrated by the admin and by a creator between compatible and           *)
(* incompatible versions.                                                  *)
(***************************************************************************)
V100 == <<"1", Dot, "0", Dot, "0">>
V110 == <<"1", Dot, "1", Dot, "0">>
V200 == <<"2", Dot, "0", Dot, "0">>
Versions == {V100, V110, V200}
Migrators == {"admin", "alice"}

Migrations == {<<V100, V110>>, <<V110, V100>>, <<V100, V200>>}

MigNext ==
    \/ \E caller \in Migrators, m \in Migrations, failure_recorded \in BOOLEAN :
           MigrateCourseData(caller, m[1], m[2], failure_recorded)
    \/ \E caller \in Migrators, m \in Migrations, failure_recorded \in BOOLEAN :
           MigrateAccessData(caller, m[1], m[2], failure_recorded)
    \/ GetMigrationStatus
    \/ AccessGetMigrationStatus
    \/ GetVersionHistory
    \/ AccessGetVersionHistory
    \/ \E from_version \in Versions, to_version \in {V100, V200} :
           IsVersionCompatible(from_version, to_version)

MigSpec == Init /\ [][MigNext]_vars

\* hist.saved: for each invoker, the reference of its last successful
\* save_user_profile
SaveUserProfile(invoker, off_chain_ref_id) ==
    LET out == save_user_profile(storage, invoker, off_chain_ref_id)
    IN  /\ Call("save_user_profile",
                [invoker |-> invoker, off_chain_ref_id |-> off_chain_ref_id], out)
        /\ hist' = [AfterWrite(hist) EXCEPT
                        !.saved = IF out.err = "none"
                                  THEN set(@, invoker, off_chain_ref_id) ELSE @]

\* Users of the course_access contract save and replace their profiles.
AccessUsers == {"alice", "bob", "carol"}
AccessRefs == {"", "ref1", "ref2"}

AccessNext ==
    \E invoker \in AccessUsers, off_chain_ref_id \in AccessRefs :
        SaveUserProfile(invoker, off_chain_ref_id)

AccessSpec == Init /\ [][AccessNext]_vars

ProfileInit ==
    \E f \in ProfileStores :
        /\ storage = [EmptyStorage EXCEPT
                          !.profile = [a \in {b \in Addresses : f[b] # None} |-> f[a][1]]]
        /\ ledger = [timestamp |-> 0, sequence |-> 0]
        /\ last = NoCall("init")
        /\ hist = [created |-> 0, rejected |-> FALSE, added |-> {},
                   times |-> [c \in Addresses |-> <<>>], limited |-> {}, archived |-> {},
                   seen |-> <<>>, published |-> {}, migrated |-> NoMigrations,
               goal_ids |-> <<>>, removed |-> {},
               saved |-> EmptyFcn, issued |-> EmptyFcn]

ProfileNext ==
    \/ \E user_address \in Addresses : GetUserProfile(user_address)
    \/ \E user_address \in Addresses, requester_address \in Addresses :
           GetUserProfileWithPrivacy(user_address, requester_address)

ProfileSpec == ProfileInit /\ [][ProfileNext]_vars

(***************************************************************************)
(* Properties.                                                             *)
(*   hist.created  : the number of create_course calls that succeeded      *)
(*   hist.rejected : whether some create_course call failed                *)
(*   hist.added    : the (course, position) pairs of successful add_module *)
(*   hist.times    : per creator, the ledger times of its successful       *)
(*                   create_course calls, in order                         *)
(*   hist.limited  : the creators a create_course call of whom was refused *)
(*                   with RateLimitExceeded                                *)
(*   hist.archived : the ids of the courses archived by archive_course     *)
(*   hist.seen     : the first read call since the storage last changed    *)
(*   hist.published: the ids of the courses a successful edit_course with   *)
(*                   new_published = true was made on                       *)
(***************************************************************************)

\* C1: the n-th successful create_course returns the decimal string of n (ids
\* start at "1" and follow without gaps), and the id counter equals the number
\* of successful creations: a failed creation consumes no id.
C1_SequentialIds ==
    /\ storage.course_id = hist.created
    /\ (last.op = "create_course" /\ last.err = "none") =>
           /\ IsDecimal(last.ret.id)
           /\ DecimalValue(last.ret.id) = hist.created
           /\ has(storage.course, last.ret.id)

\* a third creation succeeds, after a rejected one, by another creator than the first
C1_Witness ==
    /\ last.op = "create_course" /\ last.err = "none"
    /\ hist.rejected
    /\ hist.created = 3 /\ last.ret.id = <<"3">>
    /\ storage.course[<<"1">>].creator # last.ret.creator

\* C2 as claimed: once add_module has succeeded at (c, p), every later
\* add_module at (c, p) by an authorized caller fails with
\* DuplicateModulePosition, whatever its content hash, and stores nothing.
C2_Original ==
    [][(/\ last'.op = "add_module"
        /\ <<last'.args.course_id, last'.args.position>> \in hist.added
        /\ has(storage.course, last'.args.course_id)
        /\ require_course_management_auth(storage, last'.args.caller, last'.args.course_id))
       => (last'.err = "DuplicateModulePosition" /\ storage' = storage)]_vars

\* C2 (amended): at most one add_module ever succeeds at (c, p): a later one
\* always fails and stores nothing; from an authorized caller it fails with
\* DuplicateModulePosition whatever its non-empty content hash, and with
\* ContentHashRequired when the content hash is empty.
C2_AtMostOneModulePerPosition ==
    [][(/\ last'.op = "add_module"
        /\ <<last'.args.course_id, last'.args.position>> \in hist.added)
       => /\ last'.err # "none"
          /\ storage' = storage
          /\ (/\ has(storage.course, last'.args.course_id)
              /\ require_course_management_auth(storage, last'.args.caller,
                                                last'.args.course_id))
             => last'.err = (IF is_empty(last'.args.content_hash)
                             THEN "ContentHashRequired"
                             ELSE "DuplicateModulePosition")]_vars

\* a second add_module at a taken position, with another content hash, by the
\* administrator, is refused as a duplicate
C2_Witness ==
    /\ last.op = "add_module" /\ last.err = "DuplicateModulePosition"
    /\ last.args.caller = "admin"
    /\ \E m \in DOMAIN storage.module :
           /\ storage.module[m].course_id = last.args.course_id
           /\ storage.module[m].position = last.args.position
           /\ storage.module[m].content_hash # last.args.content_hash

\* C4: edit_course on an existing course by any address other than its stored
\* creator fails with Unauthorized and leaves the stored course unchanged,
\* whatever the parameters.
C4_EditByNonCreatorUnauthorized ==
    [][(/\ last'.op = "edit_course"
        /\ has(storage.course, last'.args.course_id)
        /\ last'.args.creator # storage.course[last'.args.course_id].creator)
       => /\ last'.err = "Unauthorized"
          /\ storage'.course = storage.course]_vars

\* another course creator is refused an edit whose parameters are themselves
\* invalid, on a course that is stored
C4_Witness ==
    /\ last.op = "edit_course" /\ last.err = "Unauthorized"
    /\ last.args.params \in InvalidEditParams
    /\ has(storage.course, last.args.course_id)
    /\ \E c \in DOMAIN storage.course : storage.course[c].creator = last.args.creator

\* C10 as claimed: a module record appears for course c only through an
\* add_module call by c's creator or an administrator, and an add_module call
\* on an existing course by any other caller fails with Unauthorized and
\* writes neither a module record nor a position marker.
C10_Original ==
    [][/\ \A m \in (DOMAIN storage'.module) \ (DOMAIN storage.module) :
              /\ last'.op = "add_module"
              /\ storage'.module[m].course_id = last'.args.course_id
              /\ require_course_management_auth(storage, last'.args.caller,
                                                last'.args.course_id)
       /\ (/\ last'.op = "add_module"
           /\ has(storage.course, last'.args.course_id)
           /\ ~require_course_management_auth(storage, last'.args.caller,
                                              last'.args.course_id))
          => /\ last'.err = "Unauthorized"
             /\ storage'.module = storage.module
             /\ storage'.pos = storage.pos]_vars

\* C10 (amended): as claimed, except that the refused call fails with
\* Unauthorized only when its inputs pass add_module's input checks; when they
\* do not it fails with the input error, and still writes nothing.
C10_ModulesOnlyByCreatorOrAdmin ==
    [][/\ \A m \in (DOMAIN storage'.module) \ (DOMAIN storage.module) :
              /\ last'.op = "add_module"
              /\ storage'.module[m].course_id = last'.args.course_id
              /\ require_course_management_auth(storage, last'.args.caller,
                                                last'.args.course_id)
       /\ (/\ last'.op = "add_module"
           /\ has(storage.course, last'.args.course_id)
           /\ ~require_course_management_auth(storage, last'.args.caller,
                                              last'.args.course_id))
          => /\ last'.err # "none"
             /\ last'.err =
                    (IF add_module_input_error(last'.args.course_id, last'.args.position,
                                               last'.args.content_hash) # "none"
                     THEN add_module_input_error(last'.args.course_id,
                                                 last'.args.position,
                                                 last'.args.content_hash)
                     ELSE "Unauthorized")
             /\ storage'.module = storage.module
             /\ storage'.pos = storage.pos]_vars

\* the creator of another course is refused on a course that is not theirs,
\* while that course holds a module added by its creator or the administrator
C10_Witness ==
    /\ last.op = "add_module" /\ last.err = "Unauthorized"
    /\ has(storage.course, last.args.course_id)
    /\ \E c \in DOMAIN storage.course : storage.course[c].creator = last.args.caller
    /\ \E m \in DOMAIN storage.module : storage.module[m].course_id = last.args.course_id

MutatingCalls ==
    {"create_course", "edit_course", "add_module", "add_goal", "edit_goal", "remove_goal"}

ListReturned == last.op = "list_courses_with_filters" /\ last.err = "none"

\* every supplied predicate holds of the course
SatisfiesPredicates(f, c) ==
    /\ (f.min_price # <<>> => c.price >= f.min_price[1])
    /\ (f.max_price # <<>> => c.price <= f.max_price[1])
    /\ (f.category # <<>> => c.category = f.category)
    /\ (f.level # <<>> => c.level = f.level)
    /\ (f.min_duration # <<>> =>
            c.duration_hours # <<>> /\ c.duration_hours[1] >= f.min_duration[1])
    /\ (f.max_duration # <<>> =>
            c.duration_hours # <<>> /\ c.duration_hours[1] <= f.max_duration[1])

\* the stored course is published, not archived and satisfies the predicates
Matching(f, id) ==
    /\ storage.course[id].published
    /\ ~storage.course[id].is_archived
    /\ SatisfiesPredicates(f, storage.course[id])

StoredNumbers == {DecimalValue(id) : id \in DOMAIN storage.course}
KeyOf(i) == CHOOSE id \in DOMAIN storage.course : DecimalValue(id) = i

\* the scan gets to number i: i is within the scan ceiling and no
\* MAX_EMPTY_CHECKS + 1 consecutive numbers below i are all unused
ScanReaches(i) ==
    /\ i <= MAX_SCAN_ID
    /\ LET stored == StoredNumbers
       IN  \A j \in 1..(i - 1 - MAX_EMPTY_CHECKS) :
               \E k \in j..(j + MAX_EMPTY_CHECKS) : k \in stored

AllMatches(f) == {i \in StoredNumbers : Matching(f, KeyOf(i))}
ScannedMatches(f) == {i \in AllMatches(f) : ScanReaches(i)}
RankIn(S, i) == Cardinality({j \in S : j <= i})

\* the k+1-th to k+n-th courses of S in increasing number order
PageOf(S, k, n) ==
    [r \in 1..Min(n, IF Cardinality(S) > k THEN Cardinality(S) - k ELSE 0) |->
        storage.course[KeyOf(CHOOSE i \in S : RankIn(S, i) = k + r)]]

OffsetOf(args) == IF args.offset = <<>> THEN 0 ELSE args.offset[1]
PageSizeOf(args) == Min(IF args.limit = <<>> THEN 10 ELSE args.limit[1], 20)
InOutput(c) == \E r \in 1..Len(last.ret) : last.ret[r] = c

\* C5 as stated: a stored course is in the output if and only if it is
\* published, not archived and satisfies every supplied predicate.
C5_Original ==
    ListReturned =>
        \A id \in DOMAIN storage.course :
            InOutput(storage.course[id]) <=> Matching(last.args.filters, id)

\* C5: a stored course is in the output of list_courses_with_filters if and
\* only if it is published, not archived, satisfies every supplied predicate,
\* is reached by the scan (its number is at most MAX_SCAN_ID and no
\* MAX_EMPTY_CHECKS + 1 consecutive unused numbers precede it), and its rank
\* among such courses lies in offset+1 .. offset+min(limit, 20).
C5_InOutputIffScannedMatchOnPage ==
    ListReturned =>
        LET S == ScannedMatches(last.args.filters)
        IN  \A id \in DOMAIN storage.course :
                InOutput(storage.course[id]) <=>
                    /\ DecimalValue(id) \in S
                    /\ RankIn(S, DecimalValue(id)) > OffsetOf(last.args)
                    /\ RankIn(S, DecimalValue(id))
                           <= OffsetOf(last.args) + PageSizeOf(last.args)

\* a filtered listing returns some courses and leaves out an archived course,
\* an unpublished one and a published one that fails the filter
C5_Witness ==
    /\ ListReturned /\ last.args.filters.min_price = Some(6) /\ Len(last.ret) >= 2
    /\ \E id \in DOMAIN storage.course : storage.course[id].is_archived
    /\ \E id \in DOMAIN storage.course : ~storage.course[id].published
    /\ \E id \in DOMAIN storage.course :
           storage.course[id].published /\ ~Matching(last.args.filters, id)

\* C6: every course list_courses_with_filters returns is stored as returned,
\* is published and not archived, and satisfies every supplied predicate:
\* price within [min_price, max_price], category and level equal to their
\* filters, a present duration within [min_duration, max_duration].
C6_ReturnedCoursesMatch ==
    ListReturned =>
        \A r \in 1..Len(last.ret) :
            /\ last.ret[r].id \in DOMAIN storage.course
            /\ storage.course[last.ret[r].id] = last.ret[r]
            /\ last.ret[r].published /\ ~last.ret[r].is_archived
            /\ SatisfiesPredicates(last.args.filters, last.ret[r])

\* a listing under a price ceiling returns courses while the registry holds
\* published, non-archived courses above the ceiling
C6_Witness ==
    /\ ListReturned /\ last.args.filters.max_price = Some(6) /\ Len(last.ret) >= 2
    /\ \E id \in DOMAIN storage.course :
           /\ storage.course[id].published /\ ~storage.course[id].is_archived
           /\ storage.course[id].price > 6

\* C7 as stated: offset k and limit n return the (k+1)-th to (k+n)-th of all
\* matching courses in increasing-identifier order.
C7_Original ==
    (ListReturned /\ last.args.limit # <<>>) =>
        last.ret = PageOf(AllMatches(last.args.filters), OffsetOf(last.args),
                          last.args.limit[1])

\* C7: offset k (absent: 0) and limit n (absent: 10) return exactly the
\* (k+1)-th to (k+min(n, 20))-th, in increasing-identifier order and without
\* duplicates, of the matching courses the scan reaches; the result is empty
\* when k is at least their number.
C7_PageOfScannedMatches ==
    ListReturned =>
        /\ last.ret = PageOf(ScannedMatches(last.args.filters), OffsetOf(last.args),
                             PageSizeOf(last.args))
        /\ \A r1, r2 \in 1..Len(last.ret) :
               r1 < r2 => DecimalValue(last.ret[r1].id) < DecimalValue(last.ret[r2].id)
        /\ (OffsetOf(last.args) >= Cardinality(ScannedMatches(last.args.filters))
                => last.ret = <<>>)

\* offset 3 and limit 20 over more than 3 matching courses: the page starts
\* at the fourth match
C7_Witness ==
    /\ ListReturned /\ last.args.offset = Some(3) /\ last.args.limit = Some(20)
    /\ Len(last.ret) >= 2
    /\ RankIn(ScannedMatches(last.args.filters), DecimalValue(last.ret[1].id)) = 4

\* C8: list_courses_with_filters fails with InvalidLimitValue when the limit
\* exceeds 100, otherwise with InvalidOffsetValue when the offset exceeds
\* 10000, and otherwise returns: limits 0..100, offsets 0..10000 and absent
\* limits and offsets are accepted.
C8_PaginationValidation ==
    last.op = "list_courses_with_filters" =>
        last.err =
            (IF last.args.limit # <<>> /\ last.args.limit[1] > 100
             THEN "InvalidLimitValue"
             ELSE IF last.args.offset # <<>> /\ last.args.offset[1] > 10000
             THEN "InvalidOffsetValue"
             ELSE "none")

\* a call with both limit and offset out of range reports the limit
C8_Witness ==
    /\ last.op = "list_courses_with_filters"
    /\ last.args.limit = Some(101) /\ last.args.offset = Some(10001)
    /\ last.err = "InvalidLimitValue"

\* C9: list_courses_with_filters returns at most min(limit, 20) courses, an
\* absent limit counting as 10; limit 0 returns the empty sequence.
C9_LengthAtMostCappedLimit ==
    ListReturned =>
        /\ Len(last.ret) <= Min(IF last.args.limit = <<>> THEN 10 ELSE last.args.limit[1], 20)
        /\ (last.args.limit = Some(0) => last.ret = <<>>)

\* limit 21 over 21 matching courses returns 20 of them
C9_Witness ==
    /\ ListReturned /\ last.args.limit = Some(21) /\ Len(last.ret) = 20
    /\ Cardinality(ScannedMatches(last.args.filters)) > 20

(***************************************************************************)
(* The rate limiter, read off the history of successful creations.         *)
(***************************************************************************)
\* the window open after the creations at the times ts, and the creations in
\* it: a creation opens a window when none is open or the open one is over
RECURSIVE WindowAfter(_)
WindowAfter(ts) ==
    IF ts = <<>> THEN [start |-> 0, n |-> 0]
    ELSE LET w == WindowAfter(SubSeq(ts, 1, Len(ts) - 1))
             t == ts[Len(ts)]
         IN  IF w.n = 0 \/ t >= w.start + RATE_LIMIT_WINDOW
             THEN [start |-> t, n |-> 1]
             ELSE [start |-> w.start, n |-> w.n + 1]

\* the creations of the creator in the window that contains the time now
UsedInWindow(creator, now) ==
    LET w == WindowAfter(hist.times[creator])
    IN  IF w.n > 0 /\ now < w.start + RATE_LIMIT_WINDOW THEN w.n ELSE 0

\* C11: with a ceiling of RATE_LIMIT_MAX creations per window, an otherwise
\* valid create_course call succeeds when its creator has made fewer than
\* RATE_LIMIT_MAX creations in the window containing the call and fails with
\* RateLimitExceeded when the creator has made RATE_LIMIT_MAX; only the
\* creator's own creations count, and a call after the window is over succeeds.
C11_RateLimitPerCreatorWindow ==
    [][(last'.op = "create_course" /\ last'.args.a \in ValidCreateArgs) =>
          last'.err = (IF UsedInWindow(last'.args.creator, ledger.timestamp)
                              < RATE_LIMIT_MAX
                       THEN "none" ELSE "RateLimitExceeded")]_vars

\* a creator refused at the ceiling creates again once the window is over
C11_Witness ==
    /\ last.op = "create_course" /\ last.err = "none"
    /\ last.args.creator \in hist.limited
    /\ Len(hist.times[last.args.creator]) = RATE_LIMIT_MAX + 1
    /\ hist.times[last.args.creator][RATE_LIMIT_MAX + 1]
           >= hist.times[last.args.creator][1] + RATE_LIMIT_WINDOW

\* C12: a create_course call refused by the rate limiter has, at the point
\* where it is refused, allocated no course id, stored no course and
\* published no event, and nothing of it is persisted.
C12_RateLimitedCreatePersistsNothing ==
    /\ \A creator \in Creators, a \in ValidCreateArgs \cup InvalidCreateArgs :
           LET out == create_course(storage, ledger.timestamp, creator, a)
           IN  out.err = "RateLimitExceeded" =>
                   /\ out.st.course_id = storage.course_id
                   /\ out.st.course = storage.course
                   /\ out.events = <<>>
                   /\ HostCommit(storage, out) = storage
    /\ (last.op = "create_course" /\ last.err = "RateLimitExceeded") =>
           /\ last.events = <<>> /\ last.ret = None
           /\ storage.course_id = hist.created
           /\ Cardinality(DOMAIN storage.course) = hist.created

\* a creation is refused by the rate limiter in a registry that holds courses
C12_Witness ==
    /\ last.op = "create_course" /\ last.err = "RateLimitExceeded"
    /\ last.dirty
    /\ storage.course_id = RATE_LIMIT_MAX
    /\ storage.rate[last.args.creator].count = RATE_LIMIT_MAX

(***************************************************************************)
(* The order of the checks in the mutating calls.                          *)
(***************************************************************************)
\* the first input-validation error of a call's arguments, or "none"
CreateArgsError(a) ==
    IF a.off_chain_ref_id = "" THEN "OffChainRefIdRequired"
    ELSE IF a.content_hash = "" THEN "ContentHashRequired"
    ELSE IF a.price = 0 THEN "InvalidPrice"
    ELSE IF a.category # <<>> /\ (a.category[1] = "" \/ StrLen(a.category[1]) > 100)
    THEN "EmptyCategory"
    ELSE IF a.language # <<>> /\ (a.language[1] = "" \/ StrLen(a.language[1]) > 50)
    THEN "InvalidLanguageLength"
    ELSE IF a.duration_hours # <<>>
            /\ (a.duration_hours[1] = 0 \/ a.duration_hours[1] > 8760)
    THEN "InvalidDurationValue"
    ELSE "none"

EditParamsError(p) ==
    IF p.new_content_hash = <<"">> THEN "ContentHashRequired"
    ELSE IF p.new_off_chain_ref_id = <<"">> THEN "OffChainRefIdRequired"
    ELSE IF p.new_price = <<0>> THEN "InvalidPrice"
    ELSE "none"

InputErrorOf(call) ==
    CASE call.op = "create_course" -> CreateArgsError(call.args.a)
      [] call.op = "edit_course" -> EditParamsError(call.args.params)
      [] call.op = "add_module" ->
            IF call.args.course_id = <<>> THEN "EmptyCourseId"
            ELSE IF call.args.content_hash = "" THEN "ContentHashRequired"
            ELSE IF Len(call.args.course_id) > 100 THEN "EmptyCourseId"
            ELSE IF call.args.position > 10000 THEN "InvalidModulePosition"
            ELSE "none"
      [] call.op = "add_goal" ->
            IF call.args.course_id = <<>> THEN "EmptyCourseId"
            ELSE IF call.args.content_hash = "" THEN "EmptyGoalContent"
            ELSE IF Len(call.args.course_id) > 100 THEN "InvalidCourseId"
            ELSE "none"
      [] call.op = "edit_goal" ->
            IF call.args.course_id = <<>> THEN "EmptyCourseId"
            ELSE IF call.args.goal_id = <<>> THEN "EmptyGoalId"
            ELSE IF call.args.new_content_hash = "" THEN "EmptyNewGoalContent"
            ELSE "none"
      [] call.op = "remove_goal" ->
            IF call.args.course_id = <<>> THEN "EmptyCourseId"
            ELSE IF call.args.goal_id = <<>> THEN "EmptyGoalId"
            ELSE "none"
      [] OTHER -> "none"

\* C13 as stated: in each of the six mutating calls a call with invalid input
\* reports its input-validation error, whoever the caller is and whether or
\* not the record it targets is stored.
C13_Original ==
    [][(last'.op \in MutatingCalls /\ InputErrorOf(last') # "none")
          => last'.err = InputErrorOf(last')]_vars

\* C13: add_module, add_goal, edit_goal and remove_goal report the
\* input-validation error of a call with invalid input, whoever the caller is
\* and whether or not the targeted course is stored.  edit_course first looks
\* the course up (it panics when there is none) and checks the caller against
\* its creator (Unauthorized) and only then validates the parameters;
\* create_course first
\* runs the rate limiter (RateLimitExceeded) and only then validates.
C13_ValidationOrder ==
    [][/\ (last'.op \in {"add_module", "add_goal", "edit_goal", "remove_goal"}
              /\ InputErrorOf(last') # "none")
          => last'.err = InputErrorOf(last')
       /\ (last'.op = "edit_course" /\ InputErrorOf(last') # "none")
          => last'.err =
                 (IF last'.args.course_id \notin DOMAIN storage.course
                  THEN "panic: Course not found"
                  ELSE IF storage.course[last'.args.course_id].creator
                              # last'.args.creator
                  THEN "Unauthorized"
                  ELSE InputErrorOf(last'))
       /\ (last'.op = "create_course" /\ InputErrorOf(last') # "none")
          => last'.err =
                 (IF UsedInWindow(last'.args.creator, ledger.timestamp) >= RATE_LIMIT_MAX
                  THEN "RateLimitExceeded"
                  ELSE InputErrorOf(last'))]_vars

\* a caller who is not the course's creator passes an empty content hash to
\* add_goal and is told about the content hash
C13_Witness ==
    /\ last.op = "add_goal" /\ last.err = "EmptyGoalContent"
    /\ last.args.course_id \in DOMAIN storage.course
    /\ storage.course[last.args.course_id].creator # last.args.creator

\* C14: every stored course has price > 0: a create_course with price 0 and
\* an edit_course with new_price = 0 never succeed, and fail with InvalidPrice
\* when the price is the first thing wrong with the call.
C14_PricePositive ==
    /\ \A id \in DOMAIN storage.course : storage.course[id].price > 0
    /\ (last.op = "create_course" /\ last.args.a.price = 0) =>
           /\ last.err # "none"
           /\ (/\ CreateArgsError(last.args.a) = "InvalidPrice"
               /\ UsedInWindow(last.args.creator, ledger.timestamp) < RATE_LIMIT_MAX)
              => last.err = "InvalidPrice"
    /\ (last.op = "edit_course" /\ last.args.params.new_price = Some(0)) =>
           /\ last.err # "none"
           /\ (/\ EditParamsError(last.args.params) = "InvalidPrice"
               /\ last.args.course_id \in DOMAIN storage.course
               /\ storage.course[last.args.course_id].creator = last.args.creator)
              => last.err = "InvalidPrice"

\* the creator of a stored course is refused the new price 0
C14_Witness ==
    /\ last.op = "edit_course" /\ last.err = "InvalidPrice"
    /\ last.args.params.new_price = Some(0)
    /\ last.args.course_id \in DOMAIN storage.course
    /\ storage.course[last.args.course_id].price > 0

\* C15: course ids are unique and immutable: the course stored under key k
\* has id k (so no two stored courses share an id), a successful
\* create_course stores its course under a key that held no course and leaves
\* every other record as it was, and an edit_course call changes neither the
\* id nor the creator of any stored course.
C15_IdsUniqueAndImmutable ==
    [][/\ \A k \in DOMAIN storage'.course : storage'.course[k].id = k
       /\ (last'.op = "create_course" /\ last'.err = "none") =>
              /\ last'.ret.id \notin DOMAIN storage.course
              /\ DOMAIN storage'.course = (DOMAIN storage.course) \cup {last'.ret.id}
              /\ \A k \in DOMAIN storage.course : storage'.course[k] = storage.course[k]
       /\ last'.op = "edit_course" =>
              /\ DOMAIN storage'.course = DOMAIN storage.course
              /\ \A k \in DOMAIN storage.course :
                     /\ storage'.course[k].id = storage.course[k].id
                     /\ storage'.course[k].creator = storage.course[k].creator]_vars

\* the second course has been edited by its creator, after the first course
\* was deleted, and is still stored under its id
C15_Witness ==
    /\ last.op = "edit_course" /\ last.err = "none"
    /\ last.args.course_id = <<"2">>
    /\ <<"1">> \notin DOMAIN storage.course
    /\ storage.course[<<"2">>].id = <<"2">> /\ storage.course[<<"2">>].price = 7

\* C16: a course that has been archived is in no later result of
\* list_courses_with_filters, and every later edit_course (publication
\* included), create_course and list call leaves its record stored under its
\* id and archived.
C16_ArchivedNeverListed ==
    [][/\ (last'.op = "list_courses_with_filters" /\ last'.err = "none") =>
              \A r \in 1..Len(last'.ret) : last'.ret[r].id \notin hist.archived
       /\ last'.op \in {"edit_course", "create_course", "list_courses_with_filters"} =>
              \A id \in hist.archived \cap DOMAIN storage.course :
                  /\ id \in DOMAIN storage'.course
                  /\ storage'.course[id].is_archived]_vars

\* a listing returns a course while an archived course, published and edited
\* by its creator, is stored
C16_Witness ==
    /\ last.op = "list_courses_with_filters" /\ last.err = "none" /\ Len(last.ret) = 1
    /\ \E id \in hist.archived :
           /\ id \in DOMAIN storage.course
           /\ storage.course[id].published /\ storage.course[id].price = 7

(***************************************************************************)
(* get_courses_by_instructor.  The call writes nothing, so after one the   *)
(* registry is the one the call scanned.                                   *)
(***************************************************************************)
InstructorReturned == last.op = "get_courses_by_instructor" /\ last.err = "none"

\* the numbers of the stored, non-archived courses of the instructor
OwnLiveCourses(instructor) ==
    {i \in StoredNumbers : /\ storage.course[KeyOf(i)].creator = instructor
                           /\ ~storage.course[KeyOf(i)].is_archived}

\* C17 as stated: with at most MAX_LOOP_GUARD ids allocated,
\* get_courses_by_instructor(i) returns exactly the stored, non-archived
\* courses created by i, in increasing id order, also when some ids are
\* absent from storage.
C17_Original ==
    (InstructorReturned /\ storage.course_id <= MAX_LOOP_GUARD) =>
        last.ret = PageOf(OwnLiveCourses(last.args.instructor), 0,
                          Cardinality(OwnLiveCourses(last.args.instructor)))

ModulesListed == last.op = "list_modules" /\ last.err = "none"

\* the modules stored under (MODULE_KEY, id) that belong to course c
StoredModulesOf(c) ==
    {storage.module[k] : k \in {j \in DOMAIN storage.module : storage.module[j].course_id = c}}

\* C19 as stated: list_modules(c) lists all modules belonging to course c:
\* whatever the positions (0..10000) and the ledger sequence numbers at which
\* add_module stored them, every module stored for c is in the result.
C19_Original ==
    ModulesListed =>
        \A m \in StoredModulesOf(last.args.course_id) :
            \E r \in 1..Len(last.ret) : last.ret[r] = m

(***************************************************************************)
(* The read calls.                                                         *)
(***************************************************************************)
ReadOps == {"list_courses_with_filters", "list_modules", "get_courses_by_instructor"}

\* C20: a call of list_courses_with_filters, list_modules or
\* get_courses_by_instructor writes nothing to storage, neither by its end
\* nor on its way, and its outcome is that of the same call made earlier
\* with the same arguments, if the storage has not changed since, whatever
\* read calls were made and however many ledgers closed in between.
C20_ReadsWriteNothingAndRepeat ==
    [][last'.op \in ReadOps =>
          /\ storage' = storage
          /\ ~last'.dirty
          /\ last'.events = <<>>
          /\ (hist.seen # <<>> /\ hist.seen[1].op = last'.op
                               /\ hist.seen[1].args = last'.args) =>
                 (last'.err = hist.seen[1].err /\ last'.ret = hist.seen[1].ret)]_vars

\* list_modules of a course with a module was repeated after another read
\* call and after ledgers closed, and returned the module both times
C20_Witness ==
    /\ hist.seen # <<>>
    /\ hist.seen[1].op = "list_modules" /\ hist.seen[1].again
    /\ last.op = "list_modules" /\ last.args = hist.seen[1].args
    /\ last.err = "none" /\ Len(last.ret) = 1
    /\ last.ret = hist.seen[1].ret
    /\ last.ret[1].created_at < ledger.timestamp

(***************************************************************************)
(* The cost of the scans.                                                  *)
(***************************************************************************)
\* C21: every scan-based read ends after a bounded number of lookups,
\* whatever is stored: list_courses_with_filters looks up at most MAX_SCAN_ID
\* candidate ids, get_courses_by_instructor at most MAX_LOOP_GUARD ids, and
\* list_modules at most MAX_LOOP_GUARD + 1 positions with at most
\* SEQ_PROBE_LIMIT (1000) candidate module ids for each marked position.
C21_ScansBounded ==
    /\ ListReturned =>
           Len(courses_scan(storage, last.args.filters, last.args.limit,
                            last.args.offset).examined) <= MAX_SCAN_ID
    /\ InstructorReturned =>
           Len(instructor_scan(storage, last.args.instructor).examined) <= MAX_LOOP_GUARD
    /\ ModulesListed =>
           LET examined == positions_scan(storage, last.args.course_id).examined
           IN  /\ Len(examined) <= MAX_LOOP_GUARD + 1
               /\ \A k \in 1..Len(examined) : examined[k].probed <= SEQ_PROBE_LIMIT

\* list_modules looked up every position up to MAX_LOOP_GUARD and tried all
\* SEQ_PROBE_LIMIT candidates for one of them, while a marker beyond
\* MAX_LOOP_GUARD is stored too
C21_Witness ==
    /\ ModulesListed
    /\ <<last.args.course_id, MAX_LOOP_GUARD + 1>> \in storage.pos
    /\ LET examined == positions_scan(storage, last.args.course_id).examined
       IN  /\ Len(examined) = MAX_LOOP_GUARD + 1
           /\ \E k \in 1..Len(examined) : examined[k].probed = SEQ_PROBE_LIMIT

(***************************************************************************)
(* Events.                                                                 *)
(***************************************************************************)
\* the tag of the one event of each call but create_course
EventTagOf(op) ==
    CASE op = "edit_course" -> "editCours"
      [] op = "add_module" -> "crsAddMod"
      [] op = "add_goal" -> "goalAdded"
      [] op = "edit_goal" -> "goalEdit"
      [] op = "remove_goal" -> "goalRem"

\* where that event carries the id of the course
EventCourseAt(op) == IF op \in {"edit_course", "add_module"} THEN 3 ELSE 2

\* the write of the successful call is in the storage its event is seen with
WriteCommitted ==
    CASE last.op = "edit_course" ->
             has(storage.course, last.args.course_id)
                 /\ storage.course[last.args.course_id] = last.ret
      [] last.op = "add_module" ->
             has(storage.module, last.ret.id) /\ storage.module[last.ret.id] = last.ret
                 /\ <<last.args.course_id, last.args.position>> \in storage.pos
      [] last.op = "add_goal" ->
             has(storage.goal, <<last.args.course_id, last.ret.goal_id>>)
                 /\ storage.goal[<<last.args.course_id, last.ret.goal_id>>] = last.ret
      [] last.op = "edit_goal" ->
             has(storage.goal, <<last.args.course_id, last.args.goal_id>>)
                 /\ storage.goal[<<last.args.course_id, last.args.goal_id>>].content_hash
                        = last.args.new_content_hash
      [] last.op = "remove_goal" ->
             ~has(storage.goal, <<last.args.course_id, last.args.goal_id>>)

\* C22: events are seen only of calls that succeed.  A successful
\* create_course leaves exactly the id-allocation event followed by the
\* course-created event, both carrying the id of the course stored; a
\* successful edit_course, add_module, add_goal, edit_goal or remove_goal
\* leaves exactly one event, of its own tag and naming its course, seen
\* together with the call's write; a call that aborts leaves no event.
C22_EventsOfSuccessfulCalls ==
    last.op \in MutatingCalls =>
        /\ last.err # "none" => last.events = <<>>
        /\ (last.err = "none" /\ last.op = "create_course") =>
               /\ Len(last.events) = 2
               /\ last.events[1] = <<"genCrsId", storage.course_id>>
               /\ last.events[2] = <<"crtCourse", u32_to_string(storage.course_id),
                                      last.args.creator>>
               /\ last.ret.id = last.events[2][2]
               /\ has(storage.course, last.ret.id) /\ storage.course[last.ret.id] = last.ret
        /\ (last.err = "none" /\ last.op # "create_course") =>
               /\ Len(last.events) = 1
               /\ last.events[1][1] = EventTagOf(last.op)
               /\ last.events[1][EventCourseAt(last.op)] = last.args.course_id
               /\ WriteCommitted

\* a goal was removed, which left its one event, after a course and a goal
\* were created
C22_Witness ==
    /\ last.op = "remove_goal" /\ last.err = "none"
    /\ last.events = << <<"goalRem", <<"1">>, <<"g", "1">>, "h001">> >>
    /\ storage.course_id >= 1 /\ DOMAIN storage.goal = {}

(***************************************************************************)
(* Goals and the creator of their course.                                  *)
(***************************************************************************)
GoalCalls == {"add_goal", "edit_goal", "remove_goal"}

\* the address that makes the goal call
GoalCallerOf(call) == IF call.op = "remove_goal" THEN call.args.caller ELSE call.args.creator

\* the error that refuses a caller who is not the creator
RefusalOf(op) == IF op = "add_goal" THEN "OnlyCreatorCanAddGoals" ELSE "Unauthorized"

\* the call is a goal call on a stored course by another address than the
\* course's stored creator
GoalCallByOther(call) ==
    /\ call.op \in GoalCalls
    /\ has(storage.course, call.args.course_id)
    /\ GoalCallerOf(call) # storage.course[call.args.course_id].creator

\* the stored goals change only by a goal call of the creator of its course
GoalsChangeByCreatorOnly ==
    storage'.goal # storage.goal =>
        /\ last'.op \in GoalCalls
        /\ has(storage.course, last'.args.course_id)
        /\ GoalCallerOf(last') = storage.course[last'.args.course_id].creator

C24_CreatedUnpublishedAndUnlisted ==
    /\ (last.op = "create_course" /\ last.err = "none") =>
           /\ DecimalValue(last.ret.id) = hist.created
           /\ has(storage.course, last.ret.id)
           /\ storage.course[last.ret.id] = last.ret
           /\ last.ret.published = FALSE
           /\ last.ret.is_archived = FALSE
           /\ last.ret.prerequisites = <<>>
           /\ last.ret.creator = last.args.creator
           /\ last.ret.off_chain_ref_id = last.args.a.off_chain_ref_id
           /\ last.ret.content_hash = last.args.a.content_hash
           /\ last.ret.price = last.args.a.price
           /\ last.ret.category = last.args.a.category
           /\ last.ret.language = last.args.a.language
           /\ last.ret.level = last.args.a.level
           /\ last.ret.duration_hours = last.args.a.duration_hours
    /\ \A c \in DOMAIN storage.course :
           storage.course[c].published => c \in hist.published
    /\ ListReturned =>
           \A r \in 1..Len(last.ret) : last.ret[r].id \in hist.published

\* the list returns the published first course and not the second, which was
\* created with optional fields and edited, but not published
C24_Witness ==
    /\ last.op = "list_courses_with_filters" /\ last.err = "none"
    /\ Len(last.ret) = 1 /\ last.ret[1].id = <<"1">>
    /\ has(storage.course, <<"2">>)
    /\ ~storage.course[<<"2">>].published
    /\ storage.course[<<"2">>].price = 8
    /\ storage.course[<<"2">>].category = Some("catA")
    /\ hist.published = {<<"1">>}

(***************************************************************************)
(* The user_profile contract.                                              *)
(***************************************************************************)
\* C25: get_user_profile_with_privacy(user, requester) has the outcome of
\* get_user_profile(user) for every requester: on the same storage, the
\* calls that differ only in the requester end with the same profile or the
\* same UserProfileNotFound error.
C25_RequesterIrrelevant ==
    last.op = "get_user_profile_with_privacy" =>
        /\ \A requester_address \in Addresses :
               LET other == get_user_profile_with_privacy(storage, last.args.user_address,
                                                          requester_address)
               IN  other.err = last.err /\ other.ret = last.ret
        /\ get_user_profile(storage, last.args.user_address).err = last.err
        /\ get_user_profile(storage, last.args.user_address).ret = last.ret

\* another address than the owner asked for a stored profile with a DID hash
\* and got it whole
C25_Witness ==
    /\ last.op = "get_user_profile_with_privacy" /\ last.err = "none"
    /\ last.args.requester_address # last.args.user_address
    /\ last.ret = storage.profile[last.args.user_address]
    /\ last.ret.did_hash = Some("did1")
    /\ ~has(storage.profile, last.args.requester_address)

\* C26: get_user_profile(a) returns exactly the profile stored under a, with
\* all its fields and never the profile of another address, fails with
\* UserProfileNotFound when none is stored under a, and writes nothing.
C26_ProfileOfTheAddress ==
    last.op = "get_user_profile" =>
        /\ ~last.dirty
        /\ IF has(storage.profile, last.args.user_address)
           THEN /\ last.err = "none"
                /\ last.ret = storage.profile[last.args.user_address]
                /\ last.ret.address = last.args.user_address
           ELSE last.err = "UserProfileNotFound" /\ last.ret = None

\* the profile of bob is returned while alice has a different one and the
\* administrator none
C26_Witness ==
    /\ last.op = "get_user_profile" /\ last.err = "none"
    /\ last.args.user_address = "bob" /\ last.ret.address = "bob"
    /\ has(storage.profile, "alice")
    /\ storage.profile["alice"].off_chain_ref_id # last.ret.off_chain_ref_id
    /\ ~has(storage.profile, "admin")

MigrationCalls == {"migrate_course_data", "migrate_access_data"}

\* the version history and the recorded status of the contract the last call
\* was made to
HistoryOfLast ==
    IF last.op \in {"migrate_course_data", "get_migration_status", "get_version_history"}
    THEN storage.versions ELSE storage.access_versions
StatusOfLast ==
    IF last.op \in {"migrate_course_data", "get_migration_status", "get_version_history"}
    THEN storage.migration ELSE storage.access_migration

ExaminedIds == courses_scan(storage, last.args.filters, last.args.limit, last.args.offset).examined

\* the page limit was not reached below number k: at most offset + page size
\* of the scanned matches lie below k (the match that finds the page full is
\* the last id the scan looks up)
PageOpenBelow(matches, k) ==
    Cardinality({j \in matches : j < k}) <= OffsetOf(last.args) + PageSizeOf(last.args)

\* C28: the scan of list_courses_with_filters looks up id k, once and in
\* increasing order from 1, if and only if k <= MAX_SCAN_ID, no run of more
\* than MAX_EMPTY_CHECKS consecutive absent ids lies below k, and the page
\* limit was not reached below k; a present id ends a run whether or not the
\* course is archived or unpublished.  So a stored course behind exactly
\* MAX_EMPTY_CHECKS absent ids is looked up and one behind MAX_EMPTY_CHECKS + 1
\* is not.
C28_ExaminedIffNoLongGap ==
    ListReturned =>
        LET examined == ExaminedIds
            ids == {examined[r] : r \in 1..Len(examined)}
            stored == StoredNumbers
            reached == {k \in 1..MAX_SCAN_ID :
                           \A j \in 1..(k - 1 - MAX_EMPTY_CHECKS) :
                               \E n \in j..(j + MAX_EMPTY_CHECKS) : n \in stored}
            matches == {i \in stored \cap reached : Matching(last.args.filters, KeyOf(i))}
        IN  /\ ids = {k \in reached : PageOpenBelow(matches, k)}
            /\ \A r \in 1..Len(examined) : examined[r] = r
            /\ \A i \in stored :
                   /\ (/\ i > MAX_EMPTY_CHECKS
                       /\ \A j \in (i - MAX_EMPTY_CHECKS)..(i - 1) : j \notin stored
                       /\ i = MAX_EMPTY_CHECKS + 1 \/ (i - MAX_EMPTY_CHECKS - 1) \in reached \cap stored
                       /\ i <= MAX_SCAN_ID
                       /\ PageOpenBelow(matches, i))
                          => i \in ids
                   /\ (/\ i > MAX_EMPTY_CHECKS + 1
                       /\ \A j \in (i - MAX_EMPTY_CHECKS - 1)..(i - 1) : j \notin stored)
                          => i \notin ids /\ ~InOutput(storage.course[KeyOf(i)])

\* courses 2, 3 and 5 were deleted and course 4 archived: behind the
\* MAX_EMPTY_CHECKS absent ids 2 and 3 the scan still looked up id 4, the
\* archived course ended the run, and behind the absent id 5 course 6 was
\* looked up and returned
C28_Witness ==
    /\ ListReturned
    /\ MAX_EMPTY_CHECKS = 2
    /\ StoredNumbers \cap (1..6) = {1, 4, 6}
    /\ storage.course[KeyOf(4)].is_archived
    /\ \E r \in 1..Len(ExaminedIds) : ExaminedIds[r] = 6
    /\ InOutput(storage.course[KeyOf(6)])

\* the checks of add_module in the order of the claim, on the storage the
\* call finds: the error of the first that fails, "none" if all pass
FirstFailingCheck(st, args) ==
    CASE args.course_id = <<>> -> "EmptyCourseId"
      [] OTHER ->
    CASE args.content_hash = "" -> "ContentHashRequired"
      [] OTHER ->
    CASE Len(args.course_id) > 100 -> "EmptyCourseId"
      [] OTHER ->
    CASE args.position > 10000 -> "InvalidModulePosition"
      [] OTHER ->
    CASE args.course_id \notin DOMAIN st.course -> "CourseIdNotExist"
      [] OTHER ->
    CASE args.caller # st.course[args.course_id].creator /\ args.caller \notin Admins
           -> "Unauthorized"
      [] OTHER ->
    CASE <<args.course_id, args.position>> \in st.pos -> "DuplicateModulePosition"
      [] OTHER -> "none"

\* C29: add_module reports the first failing check in the order empty course
\* id, empty content hash, course id longer than 100, position > 10000,
\* course absent (whoever calls), caller neither creator nor admin, position
\* already marked; a failing call writes nothing and publishes nothing; a call
\* passing all checks writes one module record and the marker of its
\* position together, and nothing else.
C29_FirstFailingCheckReported ==
    [][last'.op = "add_module" =>
          /\ last'.err = FirstFailingCheck(storage, last'.args)
          /\ last'.err # "none" =>
                 storage' = storage /\ ~last'.dirty /\ last'.events = <<>>
          /\ last'.err = "none" =>
                 /\ storage'.pos =
                        storage.pos \cup {<<last'.args.course_id, last'.args.position>>}
                 /\ DOMAIN storage'.module = (DOMAIN storage.module) \cup {last'.ret.id}
                 /\ last'.ret.id \notin DOMAIN storage.module
                 /\ storage'.module[last'.ret.id] = last'.ret
                 /\ last'.ret.course_id = last'.args.course_id
                 /\ last'.ret.position = last'.args.position
                 /\ last'.ret.content_hash = last'.args.content_hash
                 /\ \A m \in DOMAIN storage.module : storage'.module[m] = storage.module[m]
                 /\ storage' = [storage EXCEPT !.module = storage'.module,
                                               !.pos = storage'.pos]]_vars

\* a caller who is neither the creator nor the administrator asks for a
\* position that is already marked and is told Unauthorized, the earlier of
\* the two failing checks
C29_Witness ==
    /\ last.op = "add_module" /\ last.err = "Unauthorized"
    /\ has(storage.course, last.args.course_id)
    /\ last.args.caller # storage.course[last.args.course_id].creator
    /\ last.args.caller \notin Admins
    /\ <<last.args.course_id, last.args.position>> \in storage.pos

\* the ledger sequence number at which the stored module was added, read
\* back from its id
InsertedAt(m) ==
    CHOOSE s \in 0..MaxSequence : module_id_of(m.course_id, m.position, s) = m.id

\* no run of more than MAX_EMPTY_CHECKS consecutive unmarked positions of
\* course c lies below position p
NoLongGapBelow(c, p) ==
    \A j \in 0..(p - 1 - MAX_EMPTY_CHECKS) :
        \E k \in j..(j + MAX_EMPTY_CHECKS) : <<c, k>> \in storage.pos

\* C30: a stored module of course c, added at position p at ledger sequence
\* s, is returned by list_modules(c) if and only if s < 1000,
\* p <= MAX_LOOP_GUARD and no run of more than MAX_EMPTY_CHECKS consecutive
\* unmarked positions lies below p; every module of c, returned or not,
\* is stored with the marker of its position.
C30_ModuleListedIffProbedAndReached ==
    ModulesListed =>
        \A m \in StoredModulesOf(last.args.course_id) :
            /\ <<m.course_id, m.position>> \in storage.pos
            /\ storage.module[m.id] = m
            /\ (\E r \in 1..Len(last.ret) : last.ret[r] = m)
                   <=> (/\ InsertedAt(m) < SEQ_PROBE_LIMIT
                        /\ m.position <= MAX_LOOP_GUARD
                        /\ NoLongGapBelow(m.course_id, m.position))

\* three modules are stored and marked: the one at position 0, added at a
\* sequence below 1000, is the only one returned; the one at MAX_LOOP_GUARD,
\* added at sequence 1000 or later, and the one past MAX_LOOP_GUARD are not
C30_Witness ==
    /\ ModulesListed
    /\ Len(last.ret) = 1 /\ last.ret[1].position = 0
    /\ \E m \in StoredModulesOf(last.args.course_id) :
           /\ m.position = MAX_LOOP_GUARD
           /\ InsertedAt(m) >= SEQ_PROBE_LIMIT
           /\ <<m.course_id, m.position>> \in storage.pos
    /\ \E m \in StoredModulesOf(last.args.course_id) :
           /\ m.position = MAX_LOOP_GUARD + 1
           /\ <<m.course_id, m.position>> \in storage.pos

\* C31: every module list_modules(c) returns is stored under its id, has
\* course_id c and a position whose marker (c, position) is set; the result
\* holds at most one module per position and is in strictly increasing order
\* of position.
C31_ListedModulesStoredAndOrdered ==
    ModulesListed =>
        /\ \A r \in 1..Len(last.ret) :
               /\ has(storage.module, last.ret[r].id)
               /\ storage.module[last.ret[r].id] = last.ret[r]
               /\ last.ret[r].course_id = last.args.course_id
               /\ <<last.args.course_id, last.ret[r].position>> \in storage.pos
        /\ \A r \in 1..(Len(last.ret) - 1) :
               last.ret[r].position < last.ret[r + 1].position

\* list_modules returned two modules, of position 0 and of MAX_LOOP_GUARD,
\* while a third module of the course is stored
C31_Witness ==
    /\ ModulesListed
    /\ Len(last.ret) = 2
    /\ last.ret[1].position = 0 /\ last.ret[2].position = MAX_LOOP_GUARD
    /\ Cardinality(StoredModulesOf(last.args.course_id)) = 3

\* C32: the goal stored under key (c, g) has course_id c and goal_id g, and
\* course c is one create_course allocated (it existed when the goal was
\* added); so no remove_goal ends with GoalCourseMismatch.
C32_GoalMatchesItsKey ==
    /\ \A key \in DOMAIN storage.goal :
           /\ storage.goal[key].course_id = key[1]
           /\ storage.goal[key].goal_id = key[2]
           /\ has(storage.course, key[1])
           /\ DecimalValue(key[1]) \in 1..storage.course_id
    /\ last.op \in GoalCalls => last.err # "GoalCourseMismatch"

\* a goal was removed while another goal of the course, edited before, is
\* still stored under its key
C32_Witness ==
    /\ last.op = "remove_goal" /\ last.err = "none"
    /\ \E key \in DOMAIN storage.goal :
           /\ key[1] = last.args.course_id /\ key[2] # last.args.goal_id
           /\ storage.goal[key].content_hash = "h002"

\* C33: a successful edit_goal(c, g, h) changes the content_hash of the goal
\* stored under (c, g) to h and nothing else: the goal's course_id, goal_id,
\* created_by and created_at, every other goal, every course record and the
\* rest of storage are as before; the call returns the goal as stored.
C33_EditGoalChangesContentHashOnly ==
    [][(last'.op = "edit_goal" /\ last'.err = "none") =>
          LET key == <<last'.args.course_id, last'.args.goal_id>>
          IN  /\ key \in DOMAIN storage.goal
              /\ storage'.goal =
                     [storage.goal EXCEPT ![key].content_hash = last'.args.new_content_hash]
              /\ storage'.course = storage.course
              /\ storage' = [storage EXCEPT !.goal = storage'.goal]
              /\ last'.ret = storage'.goal[key]]_vars

\* a goal was edited while another goal of the same course and a goal of the
\* other course keep the content hash they were added with
C33_Witness ==
    /\ last.op = "edit_goal" /\ last.err = "none"
    /\ storage.goal[<<last.args.course_id, last.args.goal_id>>].content_hash = "h002"
    /\ \E k \in DOMAIN storage.goal :
           /\ k[1] = last.args.course_id /\ k[2] # last.args.goal_id
           /\ storage.goal[k].content_hash = "h001"
    /\ \E k \in DOMAIN storage.goal :
           k[1] # last.args.course_id /\ storage.goal[k].content_hash = "h001"

GoalKeyOf(call) == <<call.args.course_id, call.args.goal_id>>
GoalCallerIn(call) ==
    IF call.op = "remove_goal" THEN call.args.caller ELSE call.args.creator

\* what a call of edit_goal or remove_goal on a goal that is not stored ends
\* with: the input error if there is one, a panic if the course is absent,
\* Unauthorized if the caller is not the creator of the course, and the
\* 'Goal not found' panic otherwise
AbsentGoalOutcome(st, call) ==
    IF InputErrorOf(call) # "none" THEN InputErrorOf(call)
    ELSE IF call.args.course_id \notin DOMAIN st.course THEN "panic: Course not found"
    ELSE IF st.course[call.args.course_id].creator # GoalCallerIn(call) THEN "Unauthorized"
    ELSE "panic: Goal not found"

Edited(supplied, old) == IF IsSome(supplied) THEN Unwrap(supplied) ELSE old

\* C36: a successful edit_course changes only the supplied fields of its own
\* course: a parameter left as None keeps its field, id, creator, is_archived
\* and prerequisites are never changed, and no other course, module, goal or
\* id counter is touched; the returned course is the stored one.
C36_EditCourseChangesSuppliedFieldsOnly ==
    [][(last'.op = "edit_course" /\ last'.err = "none") =>
           LET c == last'.args.course_id
               p == last'.args.params
           IN  /\ has(storage.course, c)
               /\ DOMAIN storage'.course = DOMAIN storage.course
               /\ \A d \in DOMAIN storage.course \ {c} :
                      storage'.course[d] = storage.course[d]
               /\ LET old == storage.course[c]
                      new == storage'.course[c]
                  IN  /\ new.content_hash = Edited(p.new_content_hash, old.content_hash)
                      /\ new.off_chain_ref_id
                             = Edited(p.new_off_chain_ref_id, old.off_chain_ref_id)
                      /\ new.price = Edited(p.new_price, old.price)
                      /\ new.category = Edited(p.new_category, old.category)
                      /\ new.language = Edited(p.new_language, old.language)
                      /\ new.published = Edited(p.new_published, old.published)
                      /\ new.level = Edited(p.new_level, old.level)
                      /\ new.duration_hours
                             = Edited(p.new_duration_hours, old.duration_hours)
                      /\ new.id = old.id
                      /\ new.creator = old.creator
                      /\ new.is_archived = old.is_archived
                      /\ new.prerequisites = old.prerequisites
                      /\ last'.ret = new
               /\ storage' = [storage EXCEPT !.course = storage'.course]]_vars

\* the first course, holding a module and a goal next to a second course, has
\* had its off-chain reference alone replaced
C36_Witness ==
    /\ last.op = "edit_course" /\ last.err = "none"
    /\ last.args.course_id = u32_to_string(1)
    /\ last.args.params = [NoEdit EXCEPT !.new_off_chain_ref_id = Some("ref3")]
    /\ storage.course[u32_to_string(1)]
           = [id |-> u32_to_string(1), off_chain_ref_id |-> "ref3",
              content_hash |-> RichCourse.content_hash, creator |-> CreatorOf(1),
              price |-> RichCourse.price, category |-> RichCourse.category,
              language |-> RichCourse.language, published |-> FALSE,
              prerequisites |-> <<>>, is_archived |-> FALSE,
              level |-> RichCourse.level, duration_hours |-> RichCourse.duration_hours]
    /\ has(storage.course, u32_to_string(2))
    /\ storage.pos # {} /\ DOMAIN storage.goal # {}

(***************************************************************************)
(* C37: the field bounds of a stored course                                *)
(***************************************************************************)
\* the bounds create_course enforces on the optional fields of a course
WithinCreationBounds(course) ==
    /\ IsSome(course.duration_hours) =>
           (Unwrap(course.duration_hours) >= 1 /\ Unwrap(course.duration_hours) <= 8760)
    /\ IsSome(course.category) =>
           (~is_empty(Unwrap(course.category)) /\ StrLen(Unwrap(course.category)) <= 100)
    /\ IsSome(course.language) =>
           (~is_empty(Unwrap(course.language)) /\ StrLen(Unwrap(course.language)) <= 50)

\* C37 as stated: after any sequence of create_course and edit_course every
\* stored course has a duration between 1 and 8760 hours, a non-empty
\* category of at most 100 characters and a non-empty language of at most 50
\* characters, whenever the field is present.
C37_Original ==
    \A c \in DOMAIN storage.course : WithinCreationBounds(storage.course[c])

(***************************************************************************)
(* C38: profiles saved in the course_access contract                       *)
(***************************************************************************)
\* C38 as stated: save_user_profile keeps one profile per user under that
\* user's own address: every user that has saved a profile has a profile
\* stored under its address, holding its address and the reference of its own
\* latest save, whatever other users have saved since.
C38_Original ==
    \A u \in DOMAIN hist.saved :
        /\ has(storage.access_profile, u)
        /\ storage.access_profile[u] = [user |-> u, off_chain_ref_id |-> hist.saved[u]]

(***************************************************************************)
(* C39, C40: module ids, module records and position markers               *)
(*   hist.issued : for each module id, the number of successful add_module *)
(*                 calls that returned it                                  *)
(***************************************************************************)
\* the module records stored for course c at position p
ModulesAt(c, p) ==
    {k \in DOMAIN storage.module :
        storage.module[k].course_id = c /\ storage.module[k].position = p}

\* C39: the module ids of the successful add_module calls on created courses
\* are pairwise distinct, whatever the ledger sequence numbers of the calls:
\* no id was returned twice, the id of a stored module is the id of no other
\* (course, position) at any ledger sequence number so far, and every record
\* written is still stored under its id with that id (none was overwritten).
C39_ModuleIdsDistinct ==
    /\ \A id \in DOMAIN hist.issued : hist.issued[id] = 1
    /\ DOMAIN storage.module = DOMAIN hist.issued
    /\ Cardinality(DOMAIN storage.module) = Cardinality(hist.added)
    /\ \A k \in DOMAIN storage.module :
           /\ storage.module[k].id = k
           /\ \A c \in DOMAIN storage.course, p \in IdPositions, s \in 0..ledger.sequence :
                  module_id_of(c, p, s) = k =>
                      (c = storage.module[k].course_id /\ p = storage.module[k].position)

\* modules added to one course at position 1 in ledger MaxIdSequence and at
\* position 11 in ledger 1 (the same digits in the same order), next to a
\* module added in the same ledger as another
C39_Witness ==
    /\ has(storage.module, module_id_of(u32_to_string(1), 1, MaxIdSequence))
    /\ has(storage.module, module_id_of(u32_to_string(1), 11, 1))
    /\ has(storage.module, module_id_of(u32_to_string(2), 1, 1))
    /\ last.op = "add_module" /\ last.err = "none"

\* C40: the marker of (c, p) is set exactly when one module record of course
\* c at position p is stored, and never more than one is; markers and module
\* records are those of the successful add_module calls, each of which wrote
\* both; every stored module belongs to a course that was stored when the
\* module was added and has a position of at most 10000.
C40_MarkerIffOneModule ==
    /\ \A c \in IdCourses, p \in IdPositions :
           /\ (<<c, p>> \in storage.pos) <=> (Cardinality(ModulesAt(c, p)) = 1)
           /\ Cardinality(ModulesAt(c, p)) <= 1
    /\ storage.pos = hist.added
    /\ storage.pos = {<<storage.module[k].course_id, storage.module[k].position>> :
                          k \in DOMAIN storage.module}
    /\ DOMAIN storage.module = DOMAIN hist.issued
    /\ \A k \in DOMAIN storage.module :
           /\ has(storage.course, storage.module[k].course_id)
           /\ storage.module[k].position <= 10000
    /\ (last.op = "add_module" /\ last.err = "none") =>
           /\ <<last.args.course_id, last.args.position>> \in storage.pos
           /\ has(storage.module, last.ret.id)
           /\ storage.module[last.ret.id] = last.ret
    /\ (last.op = "add_module" /\ last.err # "none") => ~last.dirty

\* the largest position is occupied on the first course, a position of the
\* second course too, and an add past the largest position has just failed
C40_Witness ==
    /\ <<u32_to_string(1), 10000>> \in storage.pos
    /\ <<u32_to_string(1), 1>> \in storage.pos
    /\ <<u32_to_string(2), 1>> \in storage.pos
    /\ last.op = "add_module" /\ last.err = "InvalidModulePosition"
    /\ last.args.position = 10001
=============================================================================
